---------------------------- MODULE Spec2Model ----------------------------
(***************************************************************************)
(* Person resolution of ews-mcp: the Person entity and its merge           *)
(* (src/core/person.py), the multi-strategy directory search               *)
(* (src/adapters/gal_adapter.py), the TTL cache                            *)
(* (src/adapters/cache_adapter.py) and the multi-source find_person        *)
(* (src/services/person_service.py).                                       *)
(*                                                                         *)
(* Conventions.  A Python str is a sequence of one-character strings, so   *)
(* that lower(), endswith(), `in` and split('@') are computed.  An         *)
(* Optional[str] is a sequence of at most one str (<<>> is None).  An      *)
(* Optional[datetime] is a natural number, 0 standing for None.  A list is *)
(* a sequence; a dict that is only ever looked up by key is a function.    *)
(***************************************************************************)
EXTENDS Integers, Sequences, FiniteSets, TLC

VARIABLES
    persons,      \* SpecMerge: the heap of Person objects, by object id
    statsHeap,    \* SpecMerge: the heap of CommunicationStats objects
    calls,        \* SpecMerge: the merge_with calls made (self, other, result)
    search,       \* SpecSearch: the frame of one GALAdapter.search call
    find,         \* SpecFind: the frame of the find_person call under way
    cache,        \* SpecFind, SpecCache: CacheAdapter.cache
    now,          \* SpecFind, SpecCache: the clock, in seconds
    rank,         \* SpecRank: one _rank_persons call
    history,      \* SpecHistory: one _search_email_history call
    tasks         \* SpecCache: the get_or_fetch calls under way, by task;
                  \* SpecTtl: the set and get calls made, in order

mergeVars == <<persons, statsHeap, calls>>

searchVars == <<search>>

findVars == <<find, cache, now>>

rankVars == <<rank>>

historyVars == <<history>>

taskVars == <<tasks>>

vars == <<persons, statsHeap, calls, search, find, cache, now, rank, history, tasks>>

\* The values of the variables a specification does not use.
SearchIdle == search = [pc |-> "idle"]

FindIdle ==
    /\ find = [pc |-> "none"]
    /\ cache = <<>>
    /\ now = 0

MergeIdle ==
    /\ persons = <<>>
    /\ statsHeap = <<>>
    /\ calls = <<>>

RankIdle == rank = [pc |-> "idle"]

HistoryIdle == history = [pc |-> "idle"]

TasksIdle == tasks = <<>>

----------------------------------------------------------------------------
(* Python values *)

None == <<>>

Some(s) == <<s>>

\* Python truthiness of an Optional[str]: None and "" are falsy.
Falsy(o) == o = None \/ o[1] = <<>>

Range(s) == {s[i] : i \in DOMAIN s}

MaxOf(S) == CHOOSE m \in S : \A n \in S : n <= m

UpperChars == <<"A", "B", "C", "D", "E", "F", "G", "H", "I", "J", "K", "L", "M", "N", "O", "P", "Q", "R", "S", "T", "U", "V", "W", "X", "Y", "Z">>

LowerChars == <<"a", "b", "c", "d", "e", "f", "g", "h", "i", "j", "k", "l", "m", "n", "o", "p", "q", "r", "s", "t", "u", "v", "w", "x", "y", "z">>

LowerChar(c) ==
    IF \E i \in DOMAIN UpperChars : UpperChars[i] = c
    THEN LowerChars[CHOOSE i \in DOMAIN UpperChars : UpperChars[i] = c]
    ELSE c

\* str.lower()
Lower(s) == [i \in DOMAIN s |-> LowerChar(s[i])]

\* s.endswith(suffix)
EndsWith(s, suffix) ==
    /\ Len(suffix) <= Len(s)
    /\ SubSeq(s, Len(s) - Len(suffix) + 1, Len(s)) = suffix

\* sub in s
Contains(s, sub) ==
    \E i \in 0..(Len(s) - Len(sub)) : SubSeq(s, i + 1, i + Len(sub)) = sub

\* seq[:n]
Take(s, n) == SubSeq(s, 1, IF n < Len(s) THEN n ELSE Len(s))

----------------------------------------------------------------------------
(* src/core/person.py *)

GAL == "gal"

CONTACTS == "contacts"

EMAIL_HISTORY == "email_history"

FUZZY_MATCH == "fuzzy_match"

PersonSource == {GAL, CONTACTS, EMAIL_HISTORY, FUZZY_MATCH}

priorities(source) ==
    CASE source = GAL -> 100
      [] source = CONTACTS -> 80
      [] source = EMAIL_HISTORY -> 60
      [] source = FUZZY_MATCH -> 20
      [] OTHER -> 0

EmailAddress(address, label, is_primary) ==
    [address |-> address, label |-> label, is_primary |-> is_primary]

PhoneNumber(number, type) == [number |-> number, type |-> type]

CommunicationStats(total, sent, received, first, lastc) ==
    [total_emails |-> total, emails_sent |-> sent, emails_received |-> received,
     first_contact |-> first, last_contact |-> lastc]

\* Person.primary_email: the first address marked primary, else the first one.
primary_email(p) ==
    IF p.email_addresses = <<>> THEN None
    ELSE IF \E i \in DOMAIN p.email_addresses : p.email_addresses[i].is_primary
         THEN Some(p.email_addresses[
                  CHOOSE i \in DOMAIN p.email_addresses :
                      /\ p.email_addresses[i].is_primary
                      /\ \A j \in 1..(i - 1) : ~p.email_addresses[j].is_primary
              ].address)
         ELSE Some(p.email_addresses[1].address)

source_priority(p) ==
    IF p.sources = <<>> THEN 0
    ELSE MaxOf({priorities(s) : s \in Range(p.sources)})

\* Person.add_source on the sources list.
add_source(sources, source) ==
    IF source \in Range(sources) THEN sources ELSE Append(sources, source)

\* Mutant of SelfIsBase: the priorities are ignored and self is always the base.
SelfIsBase_always(self, other) == TRUE

\* merge_with, lines 192-197: the operand with the higher source priority is
\* the base, self on a tie.
SelfIsBase(self, other) == source_priority(self) >= source_priority(other)

\* The donor's new addresses are put before the base's own.
MergeEmails_donorFirst(base, merge) ==
    LET existing_emails == {Lower(base[i].address) : i \in DOMAIN base}
        fresh(e) == Lower(e.address) \notin existing_emails
    IN  SelectSeq(merge, fresh) \o base

\* merge_with, lines 200-203: append each donor address whose lower-cased form
\* is not among the base's addresses as they were before the loop.
MergeEmails(base, merge) ==
    LET existing_emails == {Lower(base[i].address) : i \in DOMAIN base}
        fresh(e) == Lower(e.address) \notin existing_emails
    IN  base \o SelectSeq(merge, fresh)

\* Mutant of MergePhones: a donor number is compared by its type.
MergePhones_byType(base, merge) ==
    LET existing_types == {base[i].type : i \in DOMAIN base}
        fresh(ph) == ph.type \notin existing_types
    IN  base \o SelectSeq(merge, fresh)

\* merge_with, lines 206-209: the same for phone numbers, by exact string.
MergePhones(base, merge) ==
    LET existing_phones == {base[i].number : i \in DOMAIN base}
        fresh(ph) == ph.number \notin existing_phones
    IN  base \o SelectSeq(merge, fresh)

\* The donor's tags that the base lacks, without the base's own.
MergeSources_onlyNew(base, merge) ==
    SelectSeq(merge, LAMBDA source : source \notin Range(base))

RECURSIVE MergeSources(_, _)
\* merge_with, lines 212-213: add_source for each donor source, in order.
MergeSources(base, merge) ==
    IF merge = <<>> THEN base
    ELSE MergeSources(add_source(base, Head(merge)), Tail(merge))

\* Mutant of FillField: a non-empty donor value overwrites the base's.
FillField_donorWins(base, merge) == IF ~Falsy(merge) THEN merge ELSE base

\* merge_with, lines 216-223: a professional field is taken from the donor
\* only when the base's is falsy and the donor's is not.
FillField(base, merge) == IF Falsy(base) /\ ~Falsy(merge) THEN merge ELSE base

\* Lines 230-243 dropped: when both operands have stats the base's are kept.
MergeStats_keepBase(base, merge) == IF base = <<>> THEN merge ELSE base

\* merge_with, lines 226-243, on Optional[CommunicationStats] values.
MergeStats(base, merge) ==
    IF merge = <<>> THEN base
    ELSE IF base = <<>> THEN merge
    ELSE LET stats == base[1]
             merge_stats == merge[1]
         IN  <<[total_emails |-> stats.total_emails + merge_stats.total_emails,
                emails_sent |-> stats.emails_sent + merge_stats.emails_sent,
                emails_received |-> stats.emails_received + merge_stats.emails_received,
                last_contact |->
                    IF /\ merge_stats.last_contact # 0
                       /\ (stats.last_contact = 0 \/ merge_stats.last_contact > stats.last_contact)
                    THEN merge_stats.last_contact ELSE stats.last_contact,
                first_contact |->
                    IF /\ merge_stats.first_contact # 0
                       /\ (stats.first_contact = 0 \/ merge_stats.first_contact < stats.first_contact)
                    THEN merge_stats.first_contact ELSE stats.first_contact]>>

\* dict.update: the donor's keys overwrite the base's.
MetadataUpdate(base, merge) ==
    [k \in (DOMAIN base) \cup (DOMAIN merge) |-> IF k \in DOMAIN merge THEN merge[k] ELSE base[k]]

\* Person.merge_with on Person values (communication_stats held by value);
\* created_at and updated_at are not modelled.
merge_with(self, other) ==
    LET base == IF SelfIsBase(self, other) THEN self ELSE other
        merge == IF SelfIsBase(self, other) THEN other ELSE self
    IN  [base EXCEPT
            !.email_addresses = MergeEmails(@, merge.email_addresses),
            !.phone_numbers = MergePhones(@, merge.phone_numbers),
            !.sources = MergeSources(@, merge.sources),
            !.organization = FillField(@, merge.organization),
            !.department = FillField(@, merge.department),
            !.job_title = FillField(@, merge.job_title),
            !.office_location = FillField(@, merge.office_location),
            !.communication_stats = MergeStats(@, merge.communication_stats),
            !.is_vip = @ \/ merge.is_vip,
            !.metadata = MetadataUpdate(@, merge.metadata)]

\* EmailStr validation (pydantic, email-validator), at the abstraction of
\* this model: an address has exactly one "@" with a non-empty local part and
\* a non-empty domain.
ValidEmail(s) ==
    /\ Cardinality({i \in DOMAIN s : s[i] = "@"}) = 1
    /\ s[1] # "@"
    /\ s[Len(s)] # "@"

\* The value an EmailStr field holds: the local part as given, the domain
\* lower-cased.
EmailStr(s) ==
    LET at == CHOOSE i \in DOMAIN s : s[i] = "@"
    IN  SubSeq(s, 1, at) \o Lower(SubSeq(s, at + 1, Len(s)))

\* The Person model; display_name, given_name, surname, is_internal and the
\* two timestamps are carried by no operation modelled here and are left out.
Person(id, name, email_addresses, sources) ==
    [id |-> id, name |-> name, email_addresses |-> email_addresses,
     phone_numbers |-> <<>>, organization |-> None, department |-> None,
     job_title |-> None, office_location |-> None,
     communication_stats |-> <<>>, sources |-> sources,
     is_vip |-> FALSE, metadata |-> <<>>]

\* from_gal_result, lines 314-336: the phone numbers of a contact_info.
GalPhones(contact_info) ==
    LET listed(ph) == ~Falsy(ph.phone_number)
        raw == SelectSeq(contact_info.phone_numbers, listed)
    IN  [i \in DOMAIN raw |-> PhoneNumber(raw[i].phone_number[1], raw[i].label)]
        \o (IF Falsy(contact_info.business_phone) THEN <<>>
            ELSE <<PhoneNumber(contact_info.business_phone[1], "business")>>)
        \o (IF Falsy(contact_info.mobile_phone) THEN <<>>
            ELSE <<PhoneNumber(contact_info.mobile_phone[1], "mobile")>>)

\* Person.from_gal_result; <<>> when it raises (no email_address, or one that
\* EmailStr rejects).  contact_info is <<>> (None) or <<info>>.
from_gal_result(mailbox, contact_info) ==
    IF Falsy(mailbox.email_address) \/ ~ValidEmail(mailbox.email_address[1]) THEN <<>>
    ELSE LET email == mailbox.email_address[1]
             name == IF Falsy(mailbox.name) THEN email ELSE mailbox.name[1]
             person == Person(Lower(email), name,
                              <<EmailAddress(EmailStr(email), "primary", TRUE)>>, <<GAL>>)
         IN  IF contact_info = <<>> THEN <<person>>
             ELSE <<[person EXCEPT
                        !.organization = contact_info[1].company_name,
                        !.department = contact_info[1].department,
                        !.job_title = contact_info[1].job_title,
                        !.office_location = contact_info[1].office_location,
                        !.phone_numbers = GalPhones(contact_info[1])]>>

\* from_contact with the primary address as given for id.
from_contact_idAsGiven(contact) ==
    IF contact.email_addresses = <<>> THEN <<>>
    ELSE IF \E i \in DOMAIN contact.email_addresses : ~ValidEmail(contact.email_addresses[i]) THEN <<>>
    ELSE LET email_addrs == contact.email_addresses
             primary == email_addrs[1]
             name == IF ~Falsy(contact.given_name) /\ ~Falsy(contact.surname)
                     THEN contact.given_name[1] \o <<" ">> \o contact.surname[1]
                     ELSE IF ~Falsy(contact.display_name) THEN contact.display_name[1]
                     ELSE primary
             emails == [i \in DOMAIN email_addrs |->
                           EmailAddress(EmailStr(email_addrs[i]), "email", i = 1)]
             listed(ph) == ~Falsy(ph.phone_number)
             raw == SelectSeq(contact.phone_numbers, listed)
         IN  <<[Person(primary, name, emails, <<CONTACTS>>) EXCEPT
                   !.organization = contact.company_name,
                   !.department = contact.department,
                   !.job_title = contact.job_title,
                   !.phone_numbers =
                       [i \in DOMAIN raw |-> PhoneNumber(raw[i].phone_number[1], raw[i].label)]]>>

\* Person.from_contact; <<>> when it raises (no address, or an invalid one).
\* A contact's email_addresses are objects with an email attribute.
from_contact(contact) ==
    IF contact.email_addresses = <<>> THEN <<>>
    ELSE IF \E i \in DOMAIN contact.email_addresses : ~ValidEmail(contact.email_addresses[i]) THEN <<>>
    ELSE LET email_addrs == contact.email_addresses
             primary == email_addrs[1]
             name == IF ~Falsy(contact.given_name) /\ ~Falsy(contact.surname)
                     THEN contact.given_name[1] \o <<" ">> \o contact.surname[1]
                     ELSE IF ~Falsy(contact.display_name) THEN contact.display_name[1]
                     ELSE primary
             emails == [i \in DOMAIN email_addrs |->
                           EmailAddress(EmailStr(email_addrs[i]), "email", i = 1)]
             listed(ph) == ~Falsy(ph.phone_number)
             raw == SelectSeq(contact.phone_numbers, listed)
         IN  <<[Person(Lower(primary), name, emails, <<CONTACTS>>) EXCEPT
                   !.organization = contact.company_name,
                   !.department = contact.department,
                   !.job_title = contact.job_title,
                   !.phone_numbers =
                       [i \in DOMAIN raw |-> PhoneNumber(raw[i].phone_number[1], raw[i].label)]]>>

\* _search_email_history, lines 445-472: the Person built from one entry of
\* the contacts dict; <<>> when EmailStr rejects the address.
history_person(contact_data, include_stats) ==
    IF ~ValidEmail(contact_data.email) THEN <<>>
    ELSE <<[Person(contact_data.email,
                   IF contact_data.name = <<>> THEN contact_data.email ELSE contact_data.name,
                   <<EmailAddress(EmailStr(contact_data.email), "primary", TRUE)>>,
                   <<EMAIL_HISTORY>>) EXCEPT
               !.communication_stats =
                   IF include_stats
                   THEN <<CommunicationStats(contact_data.email_count, 0, 0,
                                             contact_data.first_contact,
                                             contact_data.last_contact)>>
                   ELSE <<>>]>>

----------------------------------------------------------------------------
(* src/adapters/gal_adapter.py *)

(* A resolver response is [raises, results]: resolve_names raised, or the    *)
(* list it returned.  A result is [format, mailbox, contact]: a tuple         *)
(* (mailbox, contact_info), an object with .mailbox and .contact, or          *)
(* something else ("unknown").  A strategy yields [raised, persons]: raised   *)
(* is TRUE when an exception leaves the strategy's method.                    *)

\* What an except clause that logs and returns [] yields.
Caught == [raised |-> FALSE, persons |-> <<>>]

Returned(found) == [raised |-> FALSE, persons |-> found]

\* GALAdapter._parse_resolve_result: <<person>>, or <<>> for None.
_parse_resolve_result(result, return_full_data) ==
    IF result.format \in {"tuple", "object"}
    THEN from_gal_result(result.mailbox, IF return_full_data THEN result.contact ELSE <<>>)
    ELSE <<>>

RECURSIVE ParseAll(_, _)
\* The loop "for result in results: person = _parse_resolve_result(...);
\* if person: persons.append(person)".
ParseAll(results, return_full_data) ==
    IF results = <<>> THEN <<>>
    ELSE _parse_resolve_result(Head(results), return_full_data)
             \o ParseAll(Tail(results), return_full_data)

\* GALAdapter._search_exact on the response to resolve_names([query]).
_search_exact(response, return_full_data) ==
    IF response.raises THEN Caught
    ELSE Returned(ParseAll(response.results, return_full_data))

\* GALAdapter._search_partial, method A, on the response to
\* resolve_names([query + "*"]); when it yields no person and did not raise,
\* method B (the contacts folder) is tried.
_search_partial_wildcard(response, return_full_data) ==
    IF response.raises THEN Caught
    ELSE Returned(ParseAll(response.results, return_full_data))

\* The match test of _search_contacts_folder (lines 344-358) and of
\* PersonService._search_contacts (lines 292-306).
ContactMatches(contact, query) ==
    LET text(o) == IF Falsy(o) THEN <<>> ELSE o[1]
        email == IF contact.email_addresses = <<>> THEN <<>> ELSE contact.email_addresses[1]
    IN  \/ Contains(Lower(text(contact.given_name)), Lower(query))
        \/ Contains(Lower(text(contact.surname)), Lower(query))
        \/ Contains(Lower(text(contact.display_name)), Lower(query))
        \/ Contains(Lower(email), Lower(query))

ContactScanLimit == 100

RECURSIVE ScanContacts(_, _)
\* The loop over the contacts: a matching contact is converted by
\* from_contact, and one it raises on is skipped.
ScanContacts(contacts, query) ==
    IF contacts = <<>> THEN <<>>
    ELSE (IF ContactMatches(Head(contacts), query) THEN from_contact(Head(contacts)) ELSE <<>>)
             \o ScanContacts(Tail(contacts), query)

\* GALAdapter._search_contacts_folder on what contacts.all() gives:
\* [raises, results].
_search_contacts_folder(folder, query) ==
    IF folder.raises THEN <<>>
    ELSE ScanContacts(Take(folder.results, ContactScanLimit), query)

\* query.split('@')[-1]: what follows the last "@".
DomainOf(query) ==
    LET ats == {i \in DOMAIN query : query[i] = "@"}
    IN  SubSeq(query, MaxOf(ats) + 1, Len(query))

\* _search_domain without its try/except: the resolver's exception leaves it.
_search_domain_uncaught(response, domain, return_full_data) ==
    IF response.raises THEN [raised |-> TRUE, persons |-> <<>>]
    ELSE LET kept(person) == EndsWith(primary_email(person)[1], <<"@">> \o domain)
         IN  Returned(SelectSeq(ParseAll(response.results, return_full_data), kept))

\* GALAdapter._search_domain on the response to resolve_names(["*@" + domain]).
_search_domain(response, domain, return_full_data) ==
    IF response.raises THEN Caught
    ELSE LET kept(person) == EndsWith(primary_email(person)[1], <<"@">> \o domain)
         IN  Returned(SelectSeq(ParseAll(response.results, return_full_data), kept))

\* The prefixes _search_fuzzy asks the resolver for, in order.
Prefixes == <<"A", "M", "S", "K", "F", "H", "N", "R">>

PrefixLimit == 10

\* One prefix of _search_fuzzy: the persons appended to all_persons; a call
\* that raises appends none (the inner "except: continue").
FuzzyPrefix(response) ==
    IF response.raises THEN <<>> ELSE ParseAll(Take(response.results, PrefixLimit), FALSE)

\* difflib.SequenceMatcher.find_longest_match over a[alo+1..ahi] and
\* b[blo+1..bhi] without junk: the longest common block, of those the one
\* starting earliest in a, of those the one starting earliest in b;
\* <<alo, blo, 0>> when there is none.
find_longest_match(a, b, alo, ahi, blo, bhi) ==
    LET shorter(i, j) == IF ahi - i < bhi - j THEN ahi - i ELSE bhi - j
        blocks == {m \in (alo .. ahi - 1) \X (blo .. bhi - 1) \X (1 .. Len(a)) :
                      /\ m[3] <= shorter(m[1], m[2])
                      /\ SubSeq(a, m[1] + 1, m[1] + m[3]) = SubSeq(b, m[2] + 1, m[2] + m[3])}
        before(m, n) == \/ m[3] > n[3]
                        \/ m[3] = n[3] /\ m[1] < n[1]
                        \/ m[3] = n[3] /\ m[1] = n[1] /\ m[2] <= n[2]
    IN  IF blocks = {} THEN <<alo, blo, 0>>
        ELSE CHOOSE m \in blocks : \A n \in blocks : before(m, n)

RECURSIVE matches(_, _, _, _, _, _)
\* The sum of the sizes of SequenceMatcher.get_matching_blocks: the longest
\* block, then the same to its left and to its right.
matches(a, b, alo, ahi, blo, bhi) ==
    LET m == find_longest_match(a, b, alo, ahi, blo, bhi)
    IN  IF m[3] = 0 THEN 0
        ELSE m[3] + matches(a, b, alo, m[1], blo, m[2])
                  + matches(a, b, m[1] + m[3], ahi, m[2] + m[3], bhi)

\* SequenceMatcher(None, a, b).ratio() = 2.0 * matches / length, and 1.0 for
\* two empty strings, as the fraction <<numerator, denominator>>.
ratio(a, b) ==
    IF Len(a) + Len(b) = 0 THEN <<1, 1>>
    ELSE <<2 * matches(a, b, 0, Len(a), 0, Len(b)), Len(a) + Len(b)>>

\* x >= y for two such fractions.
AtLeast(x, y) == x[1] * y[2] >= y[1] * x[2]

Threshold == <<6, 10>>

\* score = max(name_score, email_score) of _search_fuzzy.
FuzzyScore(person, query) ==
    LET name_score == ratio(Lower(query), Lower(person.name))
        email_score == IF primary_email(person) = None THEN <<0, 1>>
                       ELSE ratio(Lower(query), Lower(primary_email(person)[1]))
    IN  IF AtLeast(name_score, email_score) THEN name_score ELSE email_score

RECURSIVE SortByScore(_)
\* matches.sort(reverse=True, key=score): descending and stable.  Each entry
\* is [score, person].
SortByScore(entries) ==
    IF entries = <<>> THEN <<>>
    ELSE LET rest == SortByScore(Tail(entries))
             e == Head(entries)
             higher(x) == ~AtLeast(e.score, x.score)
             notHigher(x) == AtLeast(e.score, x.score)
         IN  SelectSeq(rest, higher) \o <<e>> \o SelectSeq(rest, notHigher)

TopMatches == 20

\* _search_fuzzy once all_persons is gathered: the persons scoring at least
\* the threshold, best first, at most TopMatches of them.
FuzzyMatches(all_persons, query) ==
    LET scored == [i \in DOMAIN all_persons |->
                      [score |-> FuzzyScore(all_persons[i], query), person |-> all_persons[i]]]
        passes(e) == AtLeast(e.score, Threshold)
        sorted == SortByScore(SelectSeq(scored, passes))
    IN  Take([i \in DOMAIN sorted |-> sorted[i].person], TopMatches)

\* The branch of line 437 dropped: every strategy tags with the directory.
StrategyTag_alwaysGal(strategy) == GAL

\* The tag _merge_results adds for a strategy (lines 430-438).
StrategyTag(strategy) == IF strategy = "fuzzy" THEN FUZZY_MATCH ELSE GAL

\* The position of key in the dict all_results (a sequence of [key, person]
\* in insertion order), 0 when absent.
IndexOfKey(all_results, key) ==
    IF \E i \in DOMAIN all_results : all_results[i].key = key
    THEN CHOOSE i \in DOMAIN all_results : all_results[i].key = key
    ELSE 0

\* A known key is deleted and inserted anew: the merged record moves to the
\* end of the dict.
MergeOne_movesKey(all_results, person, strategy) ==
    LET email_key == Lower(primary_email(person)[1])
        at == IndexOfKey(all_results, email_key)
    IN  IF primary_email(person) = None THEN all_results
        ELSE IF at # 0
        THEN Append(SelectSeq(all_results, LAMBDA e : e.key # email_key),
                    [key |-> email_key, person |-> merge_with(all_results[at].person, person)])
        ELSE Append(all_results,
                    [key |-> email_key,
                     person |-> [person EXCEPT !.sources = add_source(@, StrategyTag(strategy))]])

\* One iteration of the loop of _merge_results.  A new person is stored as
\* the object that is then tagged; for a known key the stored value becomes
\* the result of merge_with, a new object, and the tag goes to the incoming
\* person only.
MergeOne(all_results, person, strategy) ==
    LET email_key == Lower(primary_email(person)[1])
        at == IndexOfKey(all_results, email_key)
    IN  IF primary_email(person) = None THEN all_results
        ELSE IF at # 0
        THEN [all_results EXCEPT ![at].person = merge_with(@, person)]
        ELSE Append(all_results,
                    [key |-> email_key,
                     person |-> [person EXCEPT !.sources = add_source(@, StrategyTag(strategy))]])

RECURSIVE _merge_results(_, _, _)
\* GALAdapter._merge_results
_merge_results(all_results, new_results, strategy) ==
    IF new_results = <<>> THEN all_results
    ELSE _merge_results(MergeOne(all_results, Head(new_results), strategy), Tail(new_results), strategy)

\* list(all_results.values())[:max_results]
Values(all_results, n) == Take([i \in DOMAIN all_results |-> all_results[i].person], n)

----------------------------------------------------------------------------
(* SpecMerge: merge_with on a heap of Person objects.  A Person object holds *)
(* its CommunicationStats by reference (0 is None), so that the sharing made  *)
(* by line 228 and the copy made by model_copy(deep=True) are both visible.   *)

\* The Person value of object i: its stats dereferenced.
Deref(P, S, i) ==
    [P[i] EXCEPT !.communication_stats = IF @ = 0 THEN <<>> ELSE <<S[@]>>]

\* A new Person object holding value v, with a stats object of its own.
Alloc(P, S, v) ==
    [P |-> Append(P, [v EXCEPT !.communication_stats = IF @ = <<>> THEN 0 ELSE Len(S) + 1]),
     S |-> IF v.communication_stats = <<>> THEN S ELSE Append(S, v.communication_stats[1])]

\* Mutant of model_copy: a shallow copy, which shares the stats object.
model_copy_shallow(P, S, i) == [P |-> Append(P, P[i]), S |-> S]

\* model_copy(deep=True), lines 193 and 196: a new Person object whose stats
\* object is a copy too.
model_copy(P, S, i) == Alloc(P, S, Deref(P, S, i))

\* merge_with on the heap: the base is copied into a new object, which the
\* rest of the method writes to.  Line 228 stores the donor's stats object in
\* the copy; lines 230-243 write to the copy's own stats object.
HeapMerge(P, S, i, j) ==
    LET self == Deref(P, S, i)
        other == Deref(P, S, j)
        merge == IF SelfIsBase(self, other) THEN j ELSE i
        H == model_copy(P, S, IF SelfIsBase(self, other) THEN i ELSE j)
        base == Len(H.P)
        baseRef == H.P[base].communication_stats
        mergeRef == H.P[merge].communication_stats
        r == merge_with(self, other)
    IN  [P |-> [H.P EXCEPT ![base] =
                   [r EXCEPT !.communication_stats =
                       IF mergeRef # 0 /\ baseRef = 0 THEN mergeRef ELSE baseRef]],
         S |-> IF mergeRef # 0 /\ baseRef # 0
               THEN [H.S EXCEPT ![baseRef] = r.communication_stats[1]]
               ELSE H.S]

MaxMerges == 2

\* Samples of what the resolver, the contacts folder and the mail folders hold.
Addr_a == <<"a", "@", "x">>

Addr_A == <<"A", "@", "x">>

Addr_b == <<"b", "@", "x">>

Mailbox(name, email_address) ==
    [name |-> name, email_address |-> email_address, routing_type |-> "SMTP"]

InfoFull ==
    [company_name |-> Some(<<"X">>), department |-> Some(<<"D">>),
     job_title |-> Some(<<"J">>), office_location |-> Some(<<"O">>),
     phone_numbers |-> <<[phone_number |-> Some(<<"1">>), label |-> "business"]>>,
     business_phone |-> None, mobile_phone |-> None]

InfoPartial ==
    [company_name |-> Some(<<>>), department |-> None,
     job_title |-> Some(<<"K">>), office_location |-> None,
     phone_numbers |-> <<>>,
     business_phone |-> Some(<<"2">>), mobile_phone |-> Some(<<>>)]

ContactOne ==
    [given_name |-> Some(<<"B">>), surname |-> Some(<<"o">>), display_name |-> None,
     email_addresses |-> <<Addr_b, Addr_a>>,
     company_name |-> Some(<<"Y">>), department |-> Some(<<>>), job_title |-> None,
     phone_numbers |-> <<[phone_number |-> Some(<<"1">>), label |-> "mobile"]>>]

ContactTwo ==
    [given_name |-> None, surname |-> None, display_name |-> Some(<<"A", "l">>),
     email_addresses |-> <<Addr_A>>,
     company_name |-> None, department |-> Some(<<"E">>), job_title |-> Some(<<"J">>),
     phone_numbers |-> <<[phone_number |-> Some(<<"2">>), label |-> "home"],
                         [phone_number |-> Some(<<"1">>), label |-> "business"]>>]

\* Person values as the three factories build them, as _merge_results tags
\* them, and as a caller may have marked them (is_vip, metadata).
GalPersons ==
    {from_gal_result(Mailbox(Some(<<"A", "l">>), Some(e)), ci)[1] :
        e \in {Addr_A, Addr_b}, ci \in {<<>>, <<InfoFull>>, <<InfoPartial>>}}

ContactPersons == {from_contact(c)[1] : c \in {ContactOne, ContactTwo}}

HistoryPersons ==
    {history_person([email |-> e, name |-> <<>>, email_count |-> st[1],
                     first_contact |-> st[2], last_contact |-> st[3]], inc)[1] :
        e \in {Addr_a}, st \in {<<1, 2, 2>>, <<2, 1, 3>>}, inc \in BOOLEAN}

TaggedPersons ==
    {[p EXCEPT !.sources = add_source(@, FUZZY_MATCH)] : p \in {q \in GalPersons : q.organization = None /\ q.id = Addr_a}}
    \cup {[p EXCEPT !.sources = add_source(@, GAL)] : p \in {q \in ContactPersons : q.id = Addr_b}}

MarkedPersons ==
    {[p EXCEPT !.is_vip = TRUE, !.metadata = [k |-> 1]] : p \in {q \in GalPersons : q.id = Addr_b /\ ~Falsy(q.organization)}}
    \cup {[p EXCEPT !.metadata = [k |-> 2, j |-> 1],
                    !.communication_stats = <<CommunicationStats(3, 1, 2, 0, 1)>>] :
             p \in {q \in ContactPersons : q.id = Addr_a}}

MergeInputs == GalPersons \cup ContactPersons \cup HistoryPersons \cup TaggedPersons \cup MarkedPersons

InitMerge ==
    \E a \in MergeInputs, b \in MergeInputs :
        /\ persons = Alloc(Alloc(<<>>, <<>>, a).P, Alloc(<<>>, <<>>, a).S, b).P
        /\ statsHeap = Alloc(Alloc(<<>>, <<>>, a).P, Alloc(<<>>, <<>>, a).S, b).S
        /\ calls = <<>>
        /\ SearchIdle
        /\ FindIdle
        /\ RankIdle
        /\ HistoryIdle
        /\ TasksIdle

\* result = persons[i].merge_with(persons[j])
MergeWith(i, j) ==
    /\ Len(persons) < 2 + MaxMerges
    /\ persons' = HeapMerge(persons, statsHeap, i, j).P
    /\ statsHeap' = HeapMerge(persons, statsHeap, i, j).S
    /\ calls' = Append(calls, [self |-> i, other |-> j, result |-> Len(persons) + 1])
    /\ UNCHANGED <<searchVars, findVars, rankVars, historyVars, taskVars>>

NextMerge == \E i \in DOMAIN persons, j \in DOMAIN persons : MergeWith(i, j)

SpecMerge == InitMerge /\ [][NextMerge]_vars

----------------------------------------------------------------------------
(* Claims about merge_with, checked under SpecMerge *)

Obj(i) == Deref(persons, statsHeap, i)

LowerAddresses(p) == {Lower(p.email_addresses[i].address) : i \in DOMAIN p.email_addresses}

Numbers(p) == {p.phone_numbers[i].number : i \in DOMAIN p.phone_numbers}

\* C1: the result of every merge_with call holds every email address
\* (compared lower-cased), every phone number and every source tag of self
\* and of other.
C1_MergeLosesNothing ==
    \A n \in DOMAIN calls :
        \A op \in {calls[n].self, calls[n].other} :
            /\ LowerAddresses(Obj(op)) \subseteq LowerAddresses(Obj(calls[n].result))
            /\ Numbers(Obj(op)) \subseteq Numbers(Obj(calls[n].result))
            /\ Range(Obj(op).sources) \subseteq Range(Obj(calls[n].result).sources)

Addresses(p) == {p.email_addresses[i].address : i \in DOMAIN p.email_addresses}

\* A merge whose result has more addresses than its base and more numbers and
\* more tags than either operand, one of the donor's addresses differing from
\* one of the base's by case only.
C1_Witness ==
    \E n \in DOMAIN calls :
        /\ \E op \in {calls[n].self, calls[n].other} :
              Len(Obj(op).email_addresses) < Len(Obj(calls[n].result).email_addresses)
        /\ \A op \in {calls[n].self, calls[n].other} :
              /\ Cardinality(Numbers(Obj(op))) < Cardinality(Numbers(Obj(calls[n].result)))
              /\ Len(Obj(op).sources) < Len(Obj(calls[n].result).sources)
        /\ \E e \in Addresses(Obj(calls[n].self)), f \in Addresses(Obj(calls[n].other)) :
              e # f /\ Lower(e) = Lower(f)

\* The base of call n as the claims name it: the operand with the higher
\* source priority, self on a tie; the donor is the other operand.
BaseOf(n) ==
    IF source_priority(Obj(calls[n].self)) >= source_priority(Obj(calls[n].other))
    THEN Obj(calls[n].self) ELSE Obj(calls[n].other)

DonorOf(n) ==
    IF source_priority(Obj(calls[n].self)) >= source_priority(Obj(calls[n].other))
    THEN Obj(calls[n].other) ELSE Obj(calls[n].self)

\* C2 as stated: whenever both A.merge_with(B) and B.merge_with(A) have been
\* called, the two results have the same content, whatever the priorities.
C2_Commutative ==
    \A n \in DOMAIN calls, m \in DOMAIN calls :
        (calls[n].self = calls[m].other /\ calls[n].other = calls[m].self)
            => Obj(calls[n].result) = Obj(calls[m].result)

\* C2 as amended: whenever both A.merge_with(B) and B.merge_with(A) have been
\* called and the source priorities of A and B differ, the two results have
\* the same content.
C2_CommutativeUnlessTie ==
    \A n \in DOMAIN calls, m \in DOMAIN calls :
        (/\ calls[n].self = calls[m].other
         /\ calls[n].other = calls[m].self
         /\ source_priority(Obj(calls[n].self)) # source_priority(Obj(calls[n].other)))
            => Obj(calls[n].result) = Obj(calls[m].result)

\* Both orders merged for two records of different priority that disagree on
\* a non-empty organization and on their metadata.
C2_Witness ==
    \E n \in DOMAIN calls, m \in DOMAIN calls :
        /\ n # m
        /\ calls[n].self = calls[m].other
        /\ calls[n].other = calls[m].self
        /\ source_priority(Obj(calls[n].self)) > source_priority(Obj(calls[n].other))
        /\ ~Falsy(Obj(calls[n].self).organization)
        /\ ~Falsy(Obj(calls[n].other).organization)
        /\ Obj(calls[n].self).organization # Obj(calls[n].other).organization
        /\ Obj(calls[n].self).metadata # Obj(calls[n].other).metadata
        /\ Obj(calls[n].result) = Obj(calls[m].result)

Professional(p) == <<p.organization, p.department, p.job_title, p.office_location>>

\* An empty field value: None and "" are the same empty value.
Emptied(v) == IF Falsy(v) THEN None ELSE v

\* C3: after every merge_with call each professional field of the result
\* equals the base's value when that is non-empty and the donor's value
\* otherwise (an empty value being None or ""); so a strictly
\* higher-priority self keeps each non-empty field.
C3_BaseElseDonor ==
    \A n \in DOMAIN calls :
        \A f \in 1..4 :
            /\ Emptied(Professional(Obj(calls[n].result))[f]) =
                  IF ~Falsy(Professional(BaseOf(n))[f])
                  THEN Professional(BaseOf(n))[f]
                  ELSE Emptied(Professional(DonorOf(n))[f])
            /\ (/\ source_priority(Obj(calls[n].self)) > source_priority(Obj(calls[n].other))
                /\ ~Falsy(Professional(Obj(calls[n].self))[f]))
                  => Professional(Obj(calls[n].result))[f] = Professional(Obj(calls[n].self))[f]

\* A merge in which self has the strictly higher priority, keeps a non-empty
\* field against a different non-empty value of other, and has an empty field
\* filled from other.
C3_Witness ==
    \E n \in DOMAIN calls :
        /\ source_priority(Obj(calls[n].self)) > source_priority(Obj(calls[n].other))
        /\ \E f \in 1..4 :
              /\ ~Falsy(Professional(Obj(calls[n].self))[f])
              /\ ~Falsy(Professional(Obj(calls[n].other))[f])
              /\ Professional(Obj(calls[n].self))[f] # Professional(Obj(calls[n].other))[f]
              /\ Professional(Obj(calls[n].result))[f] = Professional(Obj(calls[n].self))[f]
        /\ \E f \in 1..4 :
              /\ Falsy(Professional(Obj(calls[n].self))[f])
              /\ ~Falsy(Professional(Obj(calls[n].other))[f])
              /\ Professional(Obj(calls[n].result))[f] = Professional(Obj(calls[n].other))[f]

\* C4: no merge_with call changes the content of an object that exists when
\* it is called, its operands included.
C4_OperandsUnchanged ==
    [][\A i \in DOMAIN persons : Deref(persons, statsHeap, i) = Deref(persons', statsHeap', i)]_vars

\* A merge whose operands both hold stats, one of them the result of an
\* earlier merge that took its stats object from its donor.
C4_Witness ==
    \E n \in DOMAIN calls, m \in DOMAIN calls :
        /\ n < m
        /\ calls[n].result \in {calls[m].self, calls[m].other}
        /\ persons[calls[n].result].communication_stats \in
              {persons[calls[n].self].communication_stats, persons[calls[n].other].communication_stats} \ {0}
        /\ persons[calls[m].self].communication_stats # 0
        /\ persons[calls[m].other].communication_stats # 0
        /\ Obj(calls[m].result).communication_stats[1].total_emails >
              Obj(calls[m].self).communication_stats[1].total_emails

\* The stats of object i, <<>> when it has none.
StatsOf(i) == Obj(i).communication_stats

\* The timestamps among a and b that are set.
SetOf(a, b) == {a, b} \ {0}

\* The earliest of the timestamps that are set, unset when none is.
Earliest(a, b) ==
    IF SetOf(a, b) = {} THEN 0
    ELSE CHOOSE t \in SetOf(a, b) : \A u \in SetOf(a, b) : t <= u

\* The latest of the timestamps that are set, unset when none is.
Latest(a, b) ==
    IF SetOf(a, b) = {} THEN 0
    ELSE CHOOSE t \in SetOf(a, b) : \A u \in SetOf(a, b) : t >= u

\* C24: the stats of the result of every merge_with call: those of the one
\* operand that has stats when only one has; when both have, the sums of
\* total_emails, emails_sent and emails_received, the earliest set
\* first_contact and the latest set last_contact of the two.
C24_StatsAdoptedOrCombined ==
    \A n \in DOMAIN calls :
        LET a == StatsOf(calls[n].self)
            b == StatsOf(calls[n].other)
            r == StatsOf(calls[n].result)
        IN  /\ (a = <<>> /\ b = <<>>) => r = <<>>
            /\ (a # <<>> /\ b = <<>>) => r = a
            /\ (a = <<>> /\ b # <<>>) => r = b
            /\ (a # <<>> /\ b # <<>>) =>
                   /\ r # <<>>
                   /\ r[1].total_emails = a[1].total_emails + b[1].total_emails
                   /\ r[1].emails_sent = a[1].emails_sent + b[1].emails_sent
                   /\ r[1].emails_received = a[1].emails_received + b[1].emails_received
                   /\ r[1].first_contact = Earliest(a[1].first_contact, b[1].first_contact)
                   /\ r[1].last_contact = Latest(a[1].last_contact, b[1].last_contact)

\* A merge of two different records that both have stats, one of them
\* without a first_contact: the result has the sums, the other operand's
\* first_contact, and a last_contact later than one operand's.
C24_Witness ==
    \E n \in DOMAIN calls :
        LET a == StatsOf(calls[n].self)
            b == StatsOf(calls[n].other)
            r == StatsOf(calls[n].result)
        IN  /\ calls[n].self # calls[n].other
            /\ a # <<>>
            /\ b # <<>>
            /\ 0 \in {a[1].first_contact, b[1].first_contact}
            /\ r[1].first_contact # 0
            /\ r[1].total_emails > a[1].total_emails
            /\ r[1].total_emails > b[1].total_emails
            /\ r[1].emails_sent > 0
            /\ r[1].last_contact > a[1].last_contact \/ r[1].last_contact > b[1].last_contact

----------------------------------------------------------------------------
(* SpecSearch: one GALAdapter.search call, one step per call to the resolver *)
(* or to the contacts folder.  The resolver is any resolver: each call may   *)
(* raise or return any short list of results, parseable or not.              *)

Addr_c == <<"c", "@", "y">>

Tuple(mailbox, contact) == [format |-> "tuple", mailbox |-> mailbox, contact |-> contact]

ResolverResults ==
    { Tuple(Mailbox(Some(<<"A", "l">>), Some(Addr_a)), <<InfoFull>>),
      [format |-> "object", mailbox |-> Mailbox(None, Some(Addr_A)), contact |-> <<InfoPartial>>],
      Tuple(Mailbox(Some(<<"M", "o">>), Some(Addr_b)), <<>>),
      Tuple(Mailbox(Some(<<"A", "l", "i">>), Some(Addr_c)), <<>>),
      Tuple(Mailbox(Some(<<"N", "o">>), None), <<>>),
      [format |-> "unknown", mailbox |-> Mailbox(None, None), contact |-> <<>>] }

MaxResponse == 2

Raises == [raises |-> TRUE, results |-> <<>>]

Lists(S, n) == UNION {[1 .. k -> S] : k \in 0 .. n}

Responses == {Raises} \cup {[raises |-> FALSE, results |-> l] : l \in Lists(ResolverResults, MaxResponse)}

ContactNoEmail ==
    [given_name |-> None, surname |-> None, display_name |-> Some(<<"A", "l", "i">>),
     email_addresses |-> <<>>,
     company_name |-> None, department |-> None, job_title |-> None,
     phone_numbers |-> <<>>]

FolderStates ==
    {Raises} \cup {[raises |-> FALSE, results |-> l] :
                      l \in Lists({ContactOne, ContactTwo, ContactNoEmail}, MaxResponse)}

\* What the directory holds under a one-letter prefix; the second entry under
\* "A" has no address and cannot be parsed.
PrefixDirectory(prefix) ==
    IF prefix = "A"
    THEN <<Tuple(Mailbox(Some(<<"A", "l", "i">>), Some(Addr_c)), <<>>),
           Tuple(Mailbox(Some(<<"A", "n">>), None), <<>>),
           Tuple(Mailbox(Some(<<"A", "l">>), Some(Addr_a)), <<InfoFull>>)>>
    ELSE IF prefix = "M"
    THEN <<Tuple(Mailbox(Some(<<"M", "o">>), Some(Addr_b)), <<>>)>>
    ELSE <<>>

\* What the resolver may answer to a one-letter prefix: it raises, or it
\* returns what the directory holds.
PrefixResponses(prefix) == {Raises, [raises |-> FALSE, results |-> PrefixDirectory(prefix)]}

Queries == {Addr_a, <<"A", "l">>}

MaxResults == 2

InitSearch ==
    /\ \E q \in Queries, n \in 1 .. MaxResults, full \in BOOLEAN :
           search = [pc |-> "exact", query |-> q, max_results |-> n, return_full_data |-> full,
                     all_results |-> <<>>, all_persons |-> <<>>, resolver_calls |-> <<>>,
                     folder_reads |-> <<>>, wildcard |-> <<>>, strategy_results |-> <<>>,
                     result |-> <<>>]
    /\ MergeIdle
    /\ FindIdle
    /\ RankIdle
    /\ HistoryIdle
    /\ TasksIdle

\* The checks between the strategies of search (lines 72, 78, 83, 88,
\* 94, 100): where the call goes after a strategy, "done" for a return.
\* The check of line 100 dropped: strategy 4 whenever the limit is not reached.
AfterDomain_unguarded(f) ==
    IF Len(f.all_results) >= f.max_results THEN "done" ELSE "fuzzy"

AfterDomain(f) ==
    IF Len(f.all_results) >= f.max_results THEN "done"
    ELSE IF Len(f.all_results) = 0 THEN "fuzzy" ELSE "done"

\* The check of line 83 dropped: strategy 3 even when strategy 2 filled the
\* accumulator.
AfterPartial_noLimit(f) ==
    IF Contains(f.query, <<"@">>) THEN "domain" ELSE AfterDomain(f)

\* The check of line 88 dropped: strategy 3 whatever the query.
AfterPartial_always(f) ==
    IF Len(f.all_results) >= f.max_results THEN "done" ELSE "domain"

AfterPartial(f) ==
    IF Len(f.all_results) >= f.max_results THEN "done"
    ELSE IF Contains(f.query, <<"@">>) THEN "domain" ELSE AfterDomain(f)

\* The check of line 78 dropped: strategy 2 whenever the limit is not reached.
AfterExact_unguarded(f) ==
    IF Len(f.all_results) >= f.max_results THEN "done" ELSE "partial"

AfterExact(f) ==
    IF Len(f.all_results) >= f.max_results THEN "done"
    ELSE IF Len(f.all_results) = 0 THEN "partial" ELSE AfterPartial(f)

After(strategy, f) ==
    CASE strategy = "exact" -> AfterExact(f)
      [] strategy = "partial" -> AfterPartial(f)
      [] strategy = "domain" -> AfterDomain(f)
      [] strategy = "fuzzy" -> "done"

\* A call resolve_names(names=[names]) made for a strategy.
Called(f, names, strategy, response) ==
    [f EXCEPT !.resolver_calls =
        Append(@, [names |-> names, strategy |-> strategy, raised |-> response.raises])]

\* The strategy returned out to search, or raised into it: search merges
\* what it returned and goes on, and an exception leaves search.
StrategyDone(f, strategy, out) ==
    IF out.raised THEN [f EXCEPT !.pc = "raised"]
    ELSE LET g == [f EXCEPT !.all_results = _merge_results(@, out.persons, strategy),
                            !.strategy_results = Append(@, [strategy |-> strategy,
                                                            persons |-> out.persons])]
             next == After(strategy, g)
         IN  [g EXCEPT !.pc = next,
                       !.result = IF next = "done" THEN Values(g.all_results, g.max_results) ELSE @]

\* Strategy 1: search calls _search_exact (lines 66-68).
SearchExact ==
    /\ search.pc = "exact"
    /\ \E response \in Responses :
           search' = StrategyDone(Called(search, search.query, "exact", response), "exact",
                                  _search_exact(response, search.return_full_data))
    /\ UNCHANGED <<mergeVars, findVars, rankVars, historyVars, taskVars>>

\* Method A ends _search_partial only by raising: the contacts folder is
\* read whatever the wildcard gave.
MethodAEnds_byRaisingOnly(response, out) == response.raises

\* _search_partial, lines 185-187 and 199-201: method A ends the strategy
\* when it parsed a person (return persons) or raised (return []).
MethodAEnds(response, out) == response.raises \/ out.persons # <<>>

\* Strategy 2, method A: _search_partial asks for query + "*"; what it parses
\* is returned when there is any, a raise ends the strategy, and otherwise
\* the contacts folder is read.
SearchPartial ==
    /\ search.pc = "partial"
    /\ \E response \in Responses :
           LET out == _search_partial_wildcard(response, search.return_full_data)
               f == [Called(search, search.query \o <<"*">>, "partial", response) EXCEPT
                        !.wildcard = out.persons]
           IN  search' = IF MethodAEnds(response, out)
                         THEN StrategyDone(f, "partial", out)
                         ELSE [f EXCEPT !.pc = "contacts"]
    /\ UNCHANGED <<mergeVars, findVars, rankVars, historyVars, taskVars>>

\* Strategy 2, method B: _search_contacts_folder.
SearchContacts ==
    /\ search.pc = "contacts"
    /\ \E folder \in FolderStates :
           search' = StrategyDone([search EXCEPT !.folder_reads = Append(@, folder.raises)],
                                  "partial",
                                  Returned(_search_contacts_folder(folder, search.query)))
    /\ UNCHANGED <<mergeVars, findVars, rankVars, historyVars, taskVars>>

\* Strategy 3: _search_domain for what follows the last "@" of the query.
SearchDomain ==
    /\ search.pc = "domain"
    /\ \E response \in Responses :
           LET domain == DomainOf(search.query)
           IN  search' = StrategyDone(Called(search, <<"*", "@">> \o domain, "domain", response),
                                      "domain",
                                      _search_domain(response, domain, search.return_full_data))
    /\ UNCHANGED <<mergeVars, findVars, rankVars, historyVars, taskVars>>

\* The resolve_names calls made for a strategy so far.
CallsFor(f, strategy) ==
    Cardinality({k \in DOMAIN f.resolver_calls : f.resolver_calls[k].strategy = strategy})

\* Strategy 4: one prefix of _search_fuzzy; after the last one the pool is
\* scored and the strategy returns.
SearchFuzzy ==
    /\ search.pc = "fuzzy"
    /\ LET i == CallsFor(search, "fuzzy") + 1
       IN  \E response \in PrefixResponses(Prefixes[i]) :
               LET f == [Called(search, <<Prefixes[i]>>, "fuzzy", response) EXCEPT
                            !.all_persons = @ \o FuzzyPrefix(response)]
               IN  search' = IF i < Len(Prefixes) THEN f
                             ELSE StrategyDone(f, "fuzzy",
                                               Returned(FuzzyMatches(f.all_persons, f.query)))
    /\ UNCHANGED <<mergeVars, findVars, rankVars, historyVars, taskVars>>

NextSearch ==
    \/ SearchExact
    \/ SearchPartial
    \/ SearchContacts
    \/ SearchDomain
    \/ SearchFuzzy

SpecSearch == InitSearch /\ [][NextSearch]_vars

----------------------------------------------------------------------------
(* Claims about GALAdapter.search, checked under SpecSearch.                 *)

Running == search.pc \notin {"idle", "raised"}

\* The resolve_names calls made for strategy that raised.
RaisedFor(strategy) ==
    {k \in DOMAIN search.resolver_calls :
        search.resolver_calls[k].strategy = strategy /\ search.resolver_calls[k].raised}

\* A strategy failed: its resolver call raised, or every one of the prefix
\* calls of strategy 4 did, or the read of the contacts folder raised.
Failed(strategy) ==
    CASE strategy = "fuzzy" -> Cardinality(RaisedFor("fuzzy")) = Len(Prefixes)
      [] strategy = "partial" -> RaisedFor("partial") # {} \/ TRUE \in Range(search.folder_reads)
      [] OTHER -> RaisedFor(strategy) # {}

\* C5: search never raises to its caller: whatever calls to the resolver
\* raise or return results that cannot be parsed, no exception leaves
\* search, a finished search has returned a list of at most max_results
\* records, and a strategy that failed is recorded as having returned no
\* person.
C5_SearchNeverRaises ==
    /\ search.pc # "raised"
    /\ search.pc = "done" =>
           /\ search.result = Values(search.all_results, search.max_results)
           /\ Len(search.result) <= search.max_results
    /\ \A k \in DOMAIN search.strategy_results :
           Failed(search.strategy_results[k].strategy) =>
               search.strategy_results[k].persons = <<>>

\* An e-mail query whose eleven resolver calls (exact, wildcard, domain and
\* the eight prefixes) all raised, and search returned the empty list.
C5_Witness ==
    /\ search.pc = "done"
    /\ Len(search.resolver_calls) = 3 + Len(Prefixes)
    /\ \A k \in DOMAIN search.resolver_calls : search.resolver_calls[k].raised
    /\ Len(search.strategy_results) = 4
    /\ search.result = <<>>

\* The number of persons strategies 1-3 returned so far.
RECURSIVE Produced(_)
Produced(strategy_results) ==
    IF strategy_results = <<>> THEN 0
    ELSE (IF Head(strategy_results).strategy = "fuzzy" THEN 0
          ELSE Len(Head(strategy_results).persons))
             + Produced(Tail(strategy_results))

FuzzyCalls ==
    SelectSeq(search.resolver_calls, LAMBDA c : c.strategy = "fuzzy")

ExactResults == search.strategy_results[1].persons

RECURSIVE DistinctIds(_)
\* The ids of a list of persons, each once, in order of first appearance.
DistinctIds(found) ==
    IF found = <<>> THEN <<>>
    ELSE LET before == DistinctIds(SubSeq(found, 1, Len(found) - 1))
             last == found[Len(found)].id
         IN  IF last \in Range(before) THEN before ELSE Append(before, last)

CallsOf(strategy) ==
    SelectSeq(search.resolver_calls, LAMBDA c : c.strategy = strategy)

\* C19: strategy 2 is attempted only if strategy 1 returned no record; its
\* one resolver call asks for query + "*"; and the contacts folder is read
\* only after that call, only if it parsed no record, and once.
C19_PartialOnlyAfterEmptyExact ==
    Running =>
        /\ (CallsOf("partial") # <<>> \/ search.folder_reads # <<>> \/ search.pc = "contacts")
              => ExactResults = <<>>
        /\ Len(CallsOf("partial")) <= 1
        /\ \A k \in DOMAIN CallsOf("partial") :
               CallsOf("partial")[k].names = search.query \o <<"*">>
        /\ (search.folder_reads # <<>> \/ search.pc = "contacts")
              => /\ Len(CallsOf("partial")) = 1
                 /\ ~CallsOf("partial")[1].raised
                 /\ search.wildcard = <<>>
                 /\ Len(search.folder_reads) <= 1
        /\ search.wildcard # <<>> => search.folder_reads = <<>>

\* A name search whose exact match and wildcard match gave no record, whose
\* read of the contacts folder found one, and which returned it.
C19_Witness ==
    /\ search.pc = "done"
    /\ ~Contains(search.query, <<"@">>)
    /\ ExactResults = <<>>
    /\ Len(CallsOf("partial")) = 1
    /\ search.wildcard = <<>>
    /\ search.folder_reads = <<FALSE>>
    /\ Len(search.result) = 1
    /\ CONTACTS \in Range(search.result[1].sources)

\* What strategy 3 returned, once it has.
DomainResults ==
    UNION {Range(search.strategy_results[k].persons) :
              k \in {n \in DOMAIN search.strategy_results :
                        search.strategy_results[n].strategy = "domain"}}

\* C20: strategy 3 is attempted only if the query contains "@"; its one
\* resolver call asks for "*@" followed by what follows the last "@" of
\* the query; and every record it returns, and every returned record of
\* the same id, has a primary email ending with "@" and that domain.
C20_DomainOnlyForAtQueries ==
    Running =>
        /\ (CallsOf("domain") # <<>> \/ search.pc = "domain") => Contains(search.query, <<"@">>)
        /\ Len(CallsOf("domain")) <= 1
        /\ \A k \in DOMAIN CallsOf("domain") :
               /\ \E i \in DOMAIN search.query :
                      /\ search.query[i] = "@"
                      /\ \A j \in i + 1 .. Len(search.query) : search.query[j] # "@"
                      /\ CallsOf("domain")[k].names =
                             <<"*", "@">> \o SubSeq(search.query, i + 1, Len(search.query))
        /\ \A p \in DomainResults :
               /\ EndsWith(primary_email(p)[1], <<"@">> \o DomainOf(search.query))
               /\ \A n \in DOMAIN search.result :
                      search.result[n].id = p.id =>
                          EndsWith(primary_email(search.result[n])[1],
                                   <<"@">> \o DomainOf(search.query))

\* An e-mail search whose exact and partial strategies gave no record and
\* whose domain call gave the two it returned, both at the domain.
C20_Witness ==
    /\ search.pc = "done"
    /\ search.query = Addr_a
    /\ ExactResults = <<>>
    /\ Len(CallsOf("partial")) = 1
    /\ Len(CallsOf("domain")) = 1
    /\ Cardinality(DomainResults) = 2
    /\ Len(search.result) = 2
    /\ \A n \in DOMAIN search.result : EndsWith(primary_email(search.result[n])[1], <<"@", "x">>)

\* The lower-cased primary emails among what the first k strategies that
\* returned gave to search.
KeysAfter(k) ==
    {Lower(primary_email(p)[1]) :
        p \in UNION {Range(search.strategy_results[j].persons) : j \in 1 .. k}}

\* The place of a strategy in search.
OrderOf(strategy) ==
    CASE strategy = "exact" -> 1
      [] strategy = "partial" -> 2
      [] strategy = "domain" -> 3
      [] strategy = "fuzzy" -> 4

\* C21: when the number of unique records accumulated (by lower-cased
\* primary email) has reached max_results after strategy 1, 2 or 3, search
\* has returned, that strategy was its last, and no later strategy made a
\* resolver call or read the contacts folder.
C21_LimitReachedEndsSearch ==
    Running =>
        \A k \in DOMAIN search.strategy_results :
            (/\ search.strategy_results[k].strategy # "fuzzy"
             /\ Cardinality(KeysAfter(k)) >= search.max_results)
            => /\ search.pc = "done"
               /\ k = Len(search.strategy_results)
               /\ Len(search.result) = search.max_results
               /\ \A c \in DOMAIN search.resolver_calls :
                      OrderOf(search.resolver_calls[c].strategy)
                          <= OrderOf(search.strategy_results[k].strategy)
               /\ search.strategy_results[k].strategy = "exact" => search.folder_reads = <<>>

\* An e-mail search with max_results 1 whose exact match gave nothing and
\* whose wildcard match gave one record: it returned that record and the
\* domain strategy, which the "@" of the query would have started, made no
\* call.
C21_Witness ==
    /\ search.pc = "done"
    /\ Contains(search.query, <<"@">>)
    /\ search.max_results = 1
    /\ ExactResults = <<>>
    /\ Len(search.strategy_results) = 2
    /\ Cardinality(KeysAfter(2)) = 1
    /\ CallsOf("domain") = <<>>
    /\ Len(search.result) = 1

RECURSIVE GivenBy(_)
\* The records the first k strategies that returned gave to search, in the
\* order given.
GivenBy(k) ==
    IF k = 0 THEN <<>> ELSE GivenBy(k - 1) \o search.strategy_results[k].persons

RECURSIVE FirstSeen(_)
\* The values of a sequence in the order of their first occurrence.
FirstSeen(keys) ==
    IF keys = <<>> THEN <<>>
    ELSE LET before == FirstSeen(SubSeq(keys, 1, Len(keys) - 1))
             last == keys[Len(keys)]
         IN  IF last \in Range(before) THEN before ELSE Append(before, last)

\* The lower-cased primary emails of a list of records.
KeysOf(found) == [n \in DOMAIN found |-> Lower(primary_email(found[n])[1])]

\* C22: the list search returns has no two records with the same lower-cased
\* primary email, has at most max_results records, and lists them in the
\* order in which their keys were first given to the accumulator.
C22_DistinctBoundedInsertionOrder ==
    (Running /\ search.pc = "done") =>
        /\ \A m, n \in DOMAIN search.result :
               KeysOf(search.result)[m] = KeysOf(search.result)[n] => m = n
        /\ Len(search.result) <= search.max_results
        /\ KeysOf(search.result)
              = Take(FirstSeen(KeysOf(GivenBy(Len(search.strategy_results)))), search.max_results)

\* An e-mail search that returned two records: the exact match gave a@x, the
\* domain call gave b@x and then A@x, which was merged into the first.
C22_Witness ==
    /\ search.pc = "done"
    /\ Len(search.result) = 2
    /\ KeysOf(search.result) = <<Addr_a, Addr_b>>
    /\ Len(GivenBy(Len(search.strategy_results))) = 3
    /\ KeysOf(GivenBy(Len(search.strategy_results))) = <<Addr_a, Addr_b, Addr_a>>
    /\ primary_email(GivenBy(Len(search.strategy_results))[3]) = Some(Addr_A)

\* The strategies that gave search a record with this key, so far.
Contributors(key) ==
    {search.strategy_results[k].strategy :
        k \in {n \in DOMAIN search.strategy_results :
                  \E p \in Range(search.strategy_results[n].persons) :
                      Lower(primary_email(p)[1]) = key}}

\* The provenance a record with these contributors must show.
TaggedFor(person, strategies) ==
    /\ "fuzzy" \in strategies => FUZZY_MATCH \in Range(person.sources)
    /\ strategies \cap {"exact", "partial", "domain"} # {}
          => GAL \in Range(person.sources) /\ FUZZY_MATCH \notin Range(person.sources)

\* C23: every record in the accumulator, and every returned record, that
\* strategy 4 contributed carries the fuzzy_match tag, and every one that
\* strategies 1-3 contributed carries the directory tag and not
\* fuzzy_match, a record merged from a duplicate email included.
C23_ProvenanceOfContributingStrategy ==
    Running =>
        /\ \A n \in DOMAIN search.all_results :
               /\ Contributors(search.all_results[n].key) # {}
               /\ TaggedFor(search.all_results[n].person, Contributors(search.all_results[n].key))
        /\ \A n \in DOMAIN search.result :
               /\ Contributors(KeysOf(search.result)[n]) # {}
               /\ TaggedFor(search.result[n], Contributors(KeysOf(search.result)[n]))

\* A name search that returned one record merged from two contacts of the
\* same address, found by the contacts scan of strategy 2: it carries the
\* contacts tag of its factory and the directory tag of the strategy.
C23_Witness ==
    /\ search.pc = "done"
    /\ search.folder_reads = <<FALSE>>
    /\ Len(search.strategy_results) = 2
    /\ Len(search.strategy_results[2].persons) = 2
    /\ Len(search.result) = 1
    /\ search.result[1].sources = <<CONTACTS, GAL>>

----------------------------------------------------------------------------
(* src/adapters/cache_adapter.py.  CacheAdapter.cache is a function from     *)
(* keys to [value, expires_at]; times are in seconds.  A cached or fetched   *)
(* value is a list of persons, [type |-> "list", items], or a coroutine      *)
(* object nobody awaited, [type |-> "coroutine", ...].                       *)

ListOf(items) == [type |-> "list", items |-> items]

\* The object a call of the async method GALAdapter.search(query, ...)
\* evaluates to before anything awaits it.
Coroutine(query) == [type |-> "coroutine", query |-> query]

DefaultDuration == 300

GalSearchDuration == 3600

\* CacheAdapter.get: [cache, value], value being <<>> for None; an expired
\* entry is deleted.
get(c, t, key) ==
    IF key \notin DOMAIN c THEN [cache |-> c, value |-> <<>>]
    ELSE IF t >= c[key].expires_at
    THEN [cache |-> [k \in DOMAIN c \ {key} |-> c[k]], value |-> <<>>]
    ELSE [cache |-> c, value |-> <<c[key].value>>]

\* CacheAdapter.set; duration 0 stands for None ("duration or 300").
set(c, t, key, value, duration) ==
    [k \in DOMAIN c \cup {key} |->
        IF k = key
        THEN [value |-> value,
              expires_at |-> t + (IF duration = 0 THEN DefaultDuration ELSE duration)]
        ELSE c[k]]

\* Whatever fetch_func is, what its call gives is awaited.
iscoroutinefunction_any(fetch_func) == TRUE

\* asyncio.iscoroutinefunction(fetch_func): true of a function defined with
\* async def, false of a lambda, whatever the lambda returns.
iscoroutinefunction(fetch_func) == fetch_func.kind = "async def"

\* CacheAdapter.get_or_fetch: [cache, value].  fetch_func is [kind, calls,
\* awaited]: calling it gives fetch_func.calls, and awaiting what an async
\* function gives yields fetch_func.awaited.
get_or_fetch(c, t, key, fetch_func, duration) ==
    LET cached == get(c, t, key)
        value == IF iscoroutinefunction(fetch_func) THEN fetch_func.awaited
                 ELSE fetch_func.calls
    IN  IF cached.value # <<>> THEN [cache |-> cached.cache, value |-> cached.value[1]]
        ELSE [cache |-> set(cached.cache, t, key, value, duration), value |-> value]

----------------------------------------------------------------------------
(* src/services/person_service.py *)

\* PersonService._search_contacts on what contacts.all() gives.
_search_contacts(folder, query) ==
    IF folder.raises THEN <<>>
    ELSE ScanContacts(Take(folder.results, ContactScanLimit), query)

MAX_ITEMS == 2000

\* The filters of _search_email_history (lines 369-375 and 415-421): TRUE
\* when the counterpart is kept.
HistoryKeeps(name, email, query) ==
    LET is_domain_search == query # <<>> /\ query[1] = "@"
        domain_query == IF is_domain_search THEN Lower(Tail(query)) ELSE <<>>
    IN  IF domain_query # <<>> THEN EndsWith(email, <<"@">> \o domain_query)
        ELSE IF query # <<>>
        THEN Contains(Lower(name), Lower(query)) \/ Contains(email, Lower(query))
        ELSE TRUE

\* One counterpart (a sender, or a recipient of a sent item) seen at a time:
\* the contacts dict, a sequence of entries in insertion order, afterwards.
Track(contacts, name, address, time, query) ==
    LET email == Lower(address)
        at == IF \E i \in DOMAIN contacts : contacts[i].email = email
              THEN CHOOSE i \in DOMAIN contacts : contacts[i].email = email ELSE 0
        entry == IF at = 0
                 THEN [email |-> email, name |-> name, email_count |-> 0,
                       last_contact |-> 0, first_contact |-> 0]
                 ELSE contacts[at]
        seen == [entry EXCEPT
                    !.email_count = @ + 1,
                    !.last_contact = IF time # 0 /\ (@ = 0 \/ time > @) THEN time ELSE @,
                    !.first_contact = IF time # 0 /\ (@ = 0 \/ time < @) THEN time ELSE @]
    IN  IF ~HistoryKeeps(name, email, query) \/ email = <<>> THEN contacts
        ELSE IF at = 0 THEN Append(contacts, seen)
        ELSE [contacts EXCEPT ![at] = seen]

RECURSIVE Recipients(_)
\* The recipients of the sent items, in order, each with the item's time; a
\* sent item is [to_recipients, time].
Recipients(items) ==
    IF items = <<>> THEN <<>>
    ELSE [i \in DOMAIN Head(items).to_recipients |->
             [name |-> Head(items).to_recipients[i].name,
              email_address |-> Head(items).to_recipients[i].email_address,
              time |-> Head(items).time]]
         \o Recipients(Tail(items))

RECURSIVE TrackAll(_, _, _)
\* A loop over counterparts [name, email_address, time], in order: the
\* first half of the items, and with the dict they leave, the second.
TrackAll(contacts, items, query) ==
    IF items = <<>> THEN contacts
    ELSE IF Len(items) = 1
    THEN Track(contacts, items[1].name, items[1].email_address, items[1].time, query)
    ELSE LET half == Len(items) \div 2
             first == TrackAll(contacts, SubSeq(items, 1, half), query)
             rest == SubSeq(items, half + 1, Len(items))
         IN  IF first = <<>> THEN TrackAll(<<>>, rest, query)
             ELSE TrackAll(first, rest, query)

\* The breaks of lines 360-361 and 406-407 dropped: every item of the two
\* folders is scanned.
_search_email_history_uncapped(mail, query, include_stats) ==
    IF mail.raises THEN <<>>
    ELSE LET contacts == TrackAll(TrackAll(<<>>, mail.inbox, query),
                                  Recipients(mail.sent), query)
         IN  IF \E i \in DOMAIN contacts : history_person(contacts[i], include_stats) = <<>>
             THEN <<>>
             ELSE [i \in DOMAIN contacts |-> history_person(contacts[i], include_stats)[1]]

\* PersonService._search_email_history on what the two folders give (mail is
\* [raises, inbox, sent]); an address EmailAddress rejects raises inside the
\* try and the search returns [].
_search_email_history(mail, query, include_stats) ==
    IF mail.raises THEN <<>>
    ELSE LET contacts == TrackAll(TrackAll(<<>>, Take(mail.inbox, MAX_ITEMS), query),
                                  Recipients(Take(mail.sent, MAX_ITEMS)), query)
         IN  IF \E i \in DOMAIN contacts : history_person(contacts[i], include_stats) = <<>>
             THEN <<>>
             ELSE [i \in DOMAIN contacts |-> history_person(contacts[i], include_stats)[1]]

SecondsPerDay == 86400

\* The match bonus of calculate_score with the two cases given the same
\* 50 points.
MatchBonus_flat(person, query) ==
    IF primary_email(person) # None /\ Lower(query) = Lower(primary_email(person)[1])
    THEN 50
    ELSE IF Contains(Lower(person.name), Lower(query)) THEN 50 ELSE 0

\* calculate_score, lines 506-510: 100 for a primary email equal to the
\* query, 50 for a name containing it.
MatchBonus(person, query) ==
    IF primary_email(person) # None /\ Lower(query) = Lower(primary_email(person)[1])
    THEN 100
    ELSE IF Contains(Lower(person.name), Lower(query)) THEN 50 ELSE 0

\* calculate_score, lines 512-515: min(total_emails, 50).
email_score(person) ==
    IF person.communication_stats = <<>> THEN 0
    ELSE IF person.communication_stats[1].total_emails < 50
    THEN person.communication_stats[1].total_emails ELSE 50

\* calculate_score, lines 517-527, times 365: max(0, 30 * (1 - days_ago / 365)).
recency_score(person, t) ==
    LET stats == person.communication_stats
        days_ago == (t - stats[1].last_contact) \div SecondsPerDay
    IN  IF stats = <<>> \/ stats[1].last_contact = 0 THEN 0
        ELSE IF days_ago < 365 THEN 30 * (365 - days_ago) ELSE 0

\* calculate_score, lines 533-543.
completeness(person) ==
    (IF Falsy(person.job_title) THEN 0 ELSE 5)
    + (IF Falsy(person.department) THEN 0 ELSE 5)
    + (IF Falsy(person.organization) THEN 0 ELSE 5)
    + (IF Len(person.phone_numbers) > 0 THEN 5 ELSE 0)

\* calculate_score of _rank_persons at time t, as the fraction of 365 the
\* recency bonus makes it: <<365 * score, 365>>.
calculate_score(person, query, t) ==
    <<365 * (source_priority(person) + MatchBonus(person, query) + email_score(person)
             + (IF person.is_vip THEN 20 ELSE 0) + completeness(person))
      + recency_score(person, t),
      365>>

\* The sort of _rank_persons with equal scores in reverse input order.
_rank_persons_unstable(found, query, t) ==
    LET sorted == SortByScore([i \in DOMAIN found |->
                                  [score |-> calculate_score(found[Len(found) + 1 - i], query, t),
                                   person |-> found[Len(found) + 1 - i]]])
    IN  [i \in DOMAIN sorted |-> sorted[i].person]

\* PersonService._rank_persons: persons.sort(key=calculate_score, reverse=True).
_rank_persons(found, query, t) ==
    LET sorted == SortByScore([i \in DOMAIN found |->
                                  [score |-> calculate_score(found[i], query, t),
                                   person |-> found[i]]])
    IN  [i \in DOMAIN sorted |-> sorted[i].person]

\* all_persons[email.lower()] = person, for a person with a primary email.
Store(all_persons, person) ==
    LET email_key == Lower(primary_email(person)[1])
        at == IndexOfKey(all_persons, email_key)
    IN  IF primary_email(person) = None THEN all_persons
        ELSE IF at # 0 THEN [all_persons EXCEPT ![at].person = person]
        ELSE Append(all_persons, [key |-> email_key, person |-> person])

\* The body of the loops over contact_persons and email_persons: merge with
\* the record of the same key, or store.
MergeOrStore(all_persons, person) ==
    LET email_key == Lower(primary_email(person)[1])
        at == IndexOfKey(all_persons, email_key)
    IN  IF primary_email(person) = None THEN all_persons
        ELSE IF at # 0 THEN [all_persons EXCEPT ![at].person = merge_with(@, person)]
        ELSE Append(all_persons, [key |-> email_key, person |-> person])

RECURSIVE StoreAll(_, _)
StoreAll(all_persons, found) ==
    IF found = <<>> THEN all_persons
    ELSE StoreAll(Store(all_persons, Head(found)), Tail(found))

RECURSIVE MergeAll(_, _)
MergeAll(all_persons, found) ==
    IF found = <<>> THEN all_persons
    ELSE MergeAll(MergeOrStore(all_persons, Head(found)), Tail(found))

\* results[:max_results] left out: every ranked record is returned.
Limit_none(results, max_results) == results

\* results[:max_results]; a negative max_results counts from the end.
Limit(results, max_results) ==
    IF max_results >= 0 THEN Take(results, max_results)
    ELSE SubSeq(results, 1, MaxOf({0, Len(results) + max_results}))

----------------------------------------------------------------------------
(* SpecFind: a PersonService serving find_person calls one after another,    *)
(* one step per source.  The contacts folder and the mail folders answer     *)
(* each call with any of the sample states, or raise.                        *)

Day == SecondsPerDay

\* The clock when the service is constructed.
StartTime == 400 * Day

Item(name, email_address, time) ==
    [name |-> name, email_address |-> email_address, time |-> time]

\* What the inbox and the sent items hold: nothing; mail from and to a@x and
\* b@x; the same with a sender whose address EmailStr rejects.
MailStates ==
    { [raises |-> TRUE, inbox |-> <<>>, sent |-> <<>>],
      [raises |-> FALSE, inbox |-> <<>>, sent |-> <<>>],
      [raises |-> FALSE,
       inbox |-> <<Item(<<"A", "l">>, Addr_A, StartTime - Day),
                   Item(<<>>, Addr_b, StartTime - 399 * Day)>>,
       sent |-> <<[to_recipients |-> <<[name |-> <<"M", "o">>, email_address |-> Addr_b],
                                       [name |-> <<"A", "l">>, email_address |-> Addr_a]>>,
                   time |-> StartTime - 2 * Day]>>],
      [raises |-> FALSE,
       inbox |-> <<Item(<<"A", "l">>, Addr_a, StartTime - Day),
                   Item(<<"X">>, <<"@", "x">>, 0)>>,
       sent |-> <<>>] }

\* What contacts.all() gives to find_person.
ContactFolders ==
    { Raises,
      [raises |-> FALSE, results |-> <<>>],
      [raises |-> FALSE, results |-> <<ContactOne, ContactNoEmail, ContactTwo>>],
      [raises |-> FALSE, results |-> <<ContactTwo>>] }

\* What awaiting gal_adapter.search(query, ...) may give.
GalAnswers ==
    { <<>>,
      <<from_gal_result(Mailbox(Some(<<"A", "l">>), Some(Addr_a)), <<InfoFull>>)[1]>> }

\* What awaiting gal_adapter.search(query, max_results) gives while the
\* directory holds Al at a@x and Mo at b@x: at most max_results of the two.
DirectoryFound(query, max_results) ==
    Take(<<from_gal_result(Mailbox(Some(<<"A", "l">>), Some(Addr_a)), <<InfoFull>>)[1],
           from_gal_result(Mailbox(Some(<<"M", "o">>), Some(Addr_b)), <<>>)[1]>>,
         max_results)

FindQueries == {<<>>, <<"@", "x">>, Addr_a}

SourceNames == {"gal", "contacts", "email_history"}

MaxCalls == 2

InitFind ==
    /\ find = [pc |-> "idle", call |-> 0]
    /\ cache = <<>>
    /\ now = StartTime
    /\ MergeIdle
    /\ SearchIdle
    /\ RankIdle
    /\ HistoryIdle
    /\ TasksIdle

\* The frame of a call, at pc.
Frame(at, query, sources, include_stats, max_results) ==
    [pc |-> at, call |-> find.call + 1, query |-> query, sources |-> sources,
     include_stats |-> include_stats, max_results |-> max_results,
     all_persons |-> <<>>, failed |-> {}, backends |-> {}, results |-> <<>>,
     entry |-> "find_person"]

\* The history is searched whatever the sources.
Enabled_historyAlways(source, sources) == source \in sources \/ source = "email_history"

\* The tests of lines 83, 103 and 118: a source is searched when it is
\* among the sources.
Enabled(source, sources) == source \in sources

\* find_person(query, sources, include_stats, max_results) is entered;
\* sources = None is the three sources.  Nothing in it looks at the query
\* before the sources are searched.
FindPerson(query, sources, include_stats, max_results) ==
    find' = Frame("gal", query, sources, include_stats, max_results)

\* No validation: every query is handed on.
ValidQuery_any(query) == TRUE

\* The invalid-input rule of the tool in front of find_person: an empty or
\* missing query is invalid.
ValidQuery(query) == query # <<>>

\* FindPersonTool.execute (src/tools/contact_intelligence_tools.py, which
\* the tests import and the sources do not hold), elapsed seconds after the
\* last call: an invalid query is rejected with an error, any other is
\* handed to find_person.
Execute(query, sources, include_stats, max_results, elapsed) ==
    /\ find.pc \in {"idle", "done", "raised", "rejected"}
    /\ find.call < MaxCalls
    /\ IF ValidQuery(query)
       THEN FindPerson(query, sources, include_stats, max_results)
       ELSE find' = Frame("rejected", query, sources, include_stats, max_results)
    /\ now' = now + elapsed
    /\ UNCHANGED <<cache, mergeVars, searchVars, rankVars, historyVars, taskVars>>

\* get_person(email, include_history), elapsed seconds after the last call:
\* find_person for the email in the three sources with max_results = 1
\* (lines 170-176).
GetPerson(email, include_history, elapsed) ==
    /\ find.pc \in {"idle", "done", "raised", "rejected"}
    /\ find.call < MaxCalls
    /\ find' = [Frame("gal", email, SourceNames, include_history, 1) EXCEPT
                   !.entry = "get_person"]
    /\ now' = now + elapsed
    /\ UNCHANGED <<cache, mergeVars, searchVars, rankVars, historyVars, taskVars>>

\* What get_person returns once find_person has (lines 178-181): persons[0],
\* or None.
FirstOrNone(found) == IF found # <<>> THEN Some(found[1]) ELSE None

\* The fetch_func of lines 87-91: a lambda whose call gives the coroutine of
\* gal_adapter.search(query, max_results, True).
SearchLambda(query, max_results) ==
    [kind |-> "lambda", calls |-> Coroutine(query),
     awaited |-> ListOf(DirectoryFound(query, max_results))]

\* Source 1 (lines 83-100): get_or_fetch with a lambda calling the async
\* gal_adapter.search, then the loop over what it returned; iterating
\* anything but a list raises TypeError, which nothing in find_person
\* catches.  The coroutine the lambda gives is never run: the resolver is
\* not called and the contacts folder is not read.
FindGal ==
    /\ find.pc = "gal"
    /\ IF Enabled("gal", find.sources)
       THEN LET got == get_or_fetch(cache, now, <<"gal_search", find.query>>,
                                    SearchLambda(find.query, find.max_results),
                                    GalSearchDuration)
            IN  /\ cache' = got.cache
                /\ find' = IF got.value.type = "list"
                           THEN [find EXCEPT !.pc = "contacts",
                                             !.all_persons = StoreAll(@, got.value.items)]
                           ELSE [find EXCEPT !.pc = "raised"]
       ELSE find' = [find EXCEPT !.pc = "contacts"] /\ UNCHANGED cache
    /\ UNCHANGED <<now, mergeVars, searchVars, rankVars, historyVars, taskVars>>

\* Source 2 (lines 102-115).
FindContacts ==
    /\ find.pc = "contacts"
    /\ IF Enabled("contacts", find.sources)
       THEN \E folder \in ContactFolders :
                find' = [find EXCEPT
                            !.pc = "email_history",
                            !.backends = @ \cup {"contacts folder"},
                            !.failed = IF folder.raises THEN @ \cup {"contacts"} ELSE @,
                            !.all_persons = MergeAll(@, _search_contacts(folder, find.query))]
       ELSE find' = [find EXCEPT !.pc = "email_history"]
    /\ UNCHANGED <<cache, now, mergeVars, searchVars, rankVars, historyVars, taskVars>>

\* Source 3 (lines 117-134), then the ranking, the limit and the return
\* (lines 136-148).
FindHistory ==
    /\ find.pc = "email_history"
    /\ \E mail \in MailStates :
           LET used == Enabled("email_history", find.sources)
               email_persons == IF used
                                THEN _search_email_history(mail, find.query, find.include_stats)
                                ELSE <<>>
               all_persons == MergeAll(find.all_persons, email_persons)
               results == _rank_persons([i \in DOMAIN all_persons |-> all_persons[i].person],
                                        find.query, now)
           IN  find' = [find EXCEPT
                           !.pc = "done",
                           !.failed = IF used /\ mail.raises THEN @ \cup {"email_history"} ELSE @,
                           !.backends = IF used THEN @ \cup {"mail folders"} ELSE @,
                           !.all_persons = all_persons,
                           !.results = Limit(results, find.max_results)]
    /\ UNCHANGED <<cache, now, mergeVars, searchVars, rankVars, historyVars, taskVars>>

NextFind ==
    \/ \E query \in FindQueries, sources \in SUBSET SourceNames, include_stats \in BOOLEAN,
          max_results \in 0 .. MaxResults, elapsed \in {0, GalSearchDuration} :
           Execute(query, sources, include_stats, max_results, elapsed)
    \/ \E include_history \in BOOLEAN, elapsed \in {0, GalSearchDuration} :
           GetPerson(Addr_a, include_history, elapsed)
    \/ FindGal
    \/ FindContacts
    \/ FindHistory

SpecFind == InitFind /\ [][NextFind]_vars

----------------------------------------------------------------------------
(* Claims about PersonService.find_person, checked under SpecFind.           *)

\* C8: a find_person call that returns, called with max_results = N, returns
\* at most N records, whatever the enabled sources produce.
C8_AtMostMaxResults ==
    find.pc = "done" => Len(find.results) <= find.max_results

\* A call with a non-empty query and max_results = 1 whose contacts and mail
\* history gave two persons, one of which was returned.
C8_Witness ==
    /\ find.pc = "done"
    /\ find.query # <<>>
    /\ find.max_results = 1
    /\ find.sources = {"contacts", "email_history"}
    /\ Len(find.all_persons) = 2
    /\ Len(find.results) = 1

\* C9: a failure in one of the three sources never aborts find_person: no
\* call ends in an exception, a source whose fetch raised contributes no
\* record, and when every enabled source failed the call returns the empty
\* list.
C9_SourceFailureNeverAborts ==
    /\ find.pc # "raised"
    /\ find.pc = "done" =>
           /\ \A k \in DOMAIN find.results :
                  \A source \in find.failed :
                      (IF source = "contacts" THEN CONTACTS ELSE EMAIL_HISTORY)
                          \notin Range(find.results[k].sources)
           /\ (find.sources # {} /\ find.failed = find.sources) => find.results = <<>>

BackendOf(source) ==
    CASE source = "gal" -> "resolver"
      [] source = "contacts" -> "contacts folder"
      [] source = "email_history" -> "mail folders"

TagOf(source) ==
    CASE source = "gal" -> GAL
      [] source = "contacts" -> CONTACTS
      [] source = "email_history" -> EMAIL_HISTORY

FreshCall(query, sources, include_stats, max_results, folder, mail, t) ==
    LET got == get_or_fetch(<<>>, t, <<"gal_search", query>>,
                            SearchLambda(query, max_results), GalSearchDuration)
        fromGal == IF Enabled("gal", sources) THEN StoreAll(<<>>, got.value.items) ELSE <<>>
        fromContacts == IF Enabled("contacts", sources)
                        THEN MergeAll(fromGal, _search_contacts(folder, query))
                        ELSE fromGal
        all_persons == IF Enabled("email_history", sources)
                       THEN MergeAll(fromContacts,
                                     _search_email_history(mail, query, include_stats))
                       ELSE fromContacts
    IN  IF Enabled("gal", sources) /\ got.value.type # "list"
        THEN [raised |-> TRUE, results |-> <<>>]
        ELSE [raised |-> FALSE,
              results |-> Limit(_rank_persons([i \in DOMAIN all_persons |-> all_persons[i].person],
                                              query, t),
                                max_results)]

C30_GetPersonReturnsThatPersonOrNone ==
    (find.pc \in {"done", "raised"} /\ find.entry = "get_person") =>
        /\ find.pc = "done"
        /\ \/ FirstOrNone(find.results) = None
           \/ FirstOrNone(find.results)[1].id = Lower(find.query)

----------------------------------------------------------------------------
(* SpecRank: one call _rank_persons(persons, query) at time t.  The list is  *)
(* what find_person passes (line 138): the values of a dict keyed by the     *)
(* lower-cased primary email, so no two of its persons share that key.       *)

Addr_d == <<"d", "@", "x">>

\* Persons to rank: directory entries named Al, and one named a@x; history
\* persons seen yesterday and over a year ago, and one whose last mail is
\* stamped a second after the time of the call; a contact; a VIP.
RankPersons ==
    { from_gal_result(Mailbox(Some(<<"A", "l">>), Some(Addr_A)), <<InfoFull>>)[1],
      from_gal_result(Mailbox(Some(Addr_a), Some(Addr_b)), <<InfoFull>>)[1],
      from_gal_result(Mailbox(Some(<<"A", "l">>), Some(Addr_b)), <<InfoFull>>)[1],
      from_gal_result(Mailbox(Some(<<"A", "l">>), Some(Addr_c)), <<>>)[1],
      [from_gal_result(Mailbox(Some(<<"A", "l">>), Some(Addr_d)), <<InfoFull>>)[1]
          EXCEPT !.is_vip = TRUE],
      from_contact(ContactTwo)[1],
      history_person([email |-> Addr_a, name |-> <<>>, email_count |-> 1,
                      first_contact |-> StartTime - Day, last_contact |-> StartTime - Day],
                     TRUE)[1],
      history_person([email |-> Addr_c, name |-> <<"A", "l">>, email_count |-> 31,
                      first_contact |-> Day, last_contact |-> StartTime - Day], TRUE)[1],
      history_person([email |-> Addr_d, name |-> <<"A", "l">>, email_count |-> 2,
                      first_contact |-> Day, last_contact |-> Day], TRUE)[1],
      history_person([email |-> Addr_b, name |-> <<>>, email_count |-> 1,
                      first_contact |-> StartTime - Day, last_contact |-> StartTime + 1],
                     TRUE)[1] }

RankQueries == {Addr_a, <<"a", "l">>}

MaxRank == 3

KeyOf(person) == Lower(primary_email(person)[1])

\* The lists of at most n persons with pairwise different keys.
KeyedLists(n) ==
    {l \in Lists(RankPersons, n) :
        \A i \in DOMAIN l, j \in DOMAIN l : KeyOf(l[i]) = KeyOf(l[j]) => i = j}

InitRank ==
    /\ \E l \in KeyedLists(MaxRank), q \in RankQueries :
           rank = [pc |-> "called", persons |-> l, query |-> q, t |-> StartTime, result |-> <<>>]
    /\ MergeIdle
    /\ SearchIdle
    /\ FindIdle
    /\ HistoryIdle
    /\ TasksIdle

\* _rank_persons sorts and returns.
RankPersonsCall ==
    /\ rank.pc = "called"
    /\ rank' = [rank EXCEPT !.pc = "returned",
                            !.result = _rank_persons(rank.persons, rank.query, rank.t)]
    /\ UNCHANGED <<mergeVars, searchVars, findVars, historyVars, taskVars>>

NextRank == RankPersonsCall

SpecRank == InitRank /\ [][NextRank]_vars

----------------------------------------------------------------------------
(* Claims about _rank_persons, checked under SpecRank. *)

Score(person) == calculate_score(person, rank.query, rank.t)

\* x > y for two scores.
Above(x, y) == ~AtLeast(y, x)

\* Where a person of the input stands in the returned list.
PlaceOf(person) == CHOOSE k \in DOMAIN rank.result : rank.result[k] = person

EmailIsQuery(person) ==
    primary_email(person) # None /\ Lower(primary_email(person)[1]) = Lower(rank.query)

NameHasQuery(person) == Contains(Lower(person.name), Lower(rank.query))

\* Two persons equal in every score component but the match bonus.
SameOtherwise(p, q) ==
    /\ source_priority(p) = source_priority(q)
    /\ email_score(p) = email_score(q)
    /\ recency_score(p, rank.t) = recency_score(q, rank.t)
    /\ p.is_vip = q.is_vip
    /\ completeness(p) = completeness(q)

\* C11: of two ranked records equal in source priority, communication
\* volume, recency, VIP status and completeness, the one whose primary
\* email equals the query case-insensitively has a strictly higher score
\* than, and is returned before, the one that only contains the query in
\* its name.
C11_EmailMatchOutranksNameMatch ==
    \A i \in DOMAIN rank.persons, j \in DOMAIN rank.persons :
        ( /\ EmailIsQuery(rank.persons[i])
          /\ ~EmailIsQuery(rank.persons[j])
          /\ NameHasQuery(rank.persons[j])
          /\ SameOtherwise(rank.persons[i], rank.persons[j]) )
        => /\ Above(Score(rank.persons[i]), Score(rank.persons[j]))
           /\ rank.pc = "returned" =>
                  PlaceOf(rank.persons[i]) < PlaceOf(rank.persons[j])

\* A returned ranking in which the record named after the query came in
\* before the record whose address, in another case, is the query, the two
\* being equal otherwise; the latter was moved in front of it.
C11_Witness ==
    /\ rank.pc = "returned"
    /\ \E i \in DOMAIN rank.persons, j \in DOMAIN rank.persons :
           /\ j < i
           /\ EmailIsQuery(rank.persons[i])
           /\ primary_email(rank.persons[i])[1] # rank.query
           /\ ~EmailIsQuery(rank.persons[j])
           /\ NameHasQuery(rank.persons[j])
           /\ SameOtherwise(rank.persons[i], rank.persons[j])
           /\ PlaceOf(rank.persons[i]) < PlaceOf(rank.persons[j])

\* C12: _rank_persons returns a permutation of its input in which no
\* record is followed by one of higher score, and two records of equal
\* score stand in their input order.
C12_StableDescendingPermutation ==
    rank.pc = "returned" =>
        /\ Len(rank.result) = Len(rank.persons)
        /\ Range(rank.result) = Range(rank.persons)
        /\ \A k \in 1 .. Len(rank.result) - 1 :
               AtLeast(Score(rank.result[k]), Score(rank.result[k + 1]))
        /\ \A i \in DOMAIN rank.persons, j \in DOMAIN rank.persons :
               (i < j /\ Score(rank.persons[i]) = Score(rank.persons[j]))
                   => PlaceOf(rank.persons[i]) < PlaceOf(rank.persons[j])

\* A returned ranking of three records in which the last of the input came
\* first and the two of equal score before it kept their order.
C12_Witness ==
    /\ rank.pc = "returned"
    /\ Len(rank.persons) = 3
    /\ Score(rank.persons[1]) = Score(rank.persons[2])
    /\ rank.persons[1] # rank.persons[2]
    /\ Above(Score(rank.persons[3]), Score(rank.persons[1]))
    /\ rank.result = <<rank.persons[3], rank.persons[1], rank.persons[2]>>

\* C25: for every record to rank that has a last_contact, before or after
\* the time of the call, the recency term of its score is at least 0 and at
\* most 30.
C25_RecencyWithinRange ==
    rank.pc # "idle" =>
        \A n \in DOMAIN rank.persons :
            LET stats == rank.persons[n].communication_stats
            IN  (stats # <<>> /\ stats[1].last_contact # 0)
                => /\ recency_score(rank.persons[n], rank.t) >= 0
                   /\ recency_score(rank.persons[n], rank.t) <= 30 * 365

----------------------------------------------------------------------------
(* SpecHistory: one call _search_email_history(query, days_back,             *)
(* include_stats) on an inbox and sent items that hold any short sequence of *)
(* the sample mails.                                                         *)

\* Senders: Al at a@x and at A@x, Mo at b@x, Ed at d@x, Ali at c@y, and one
\* whose address a@b@x EmailStr rejects.
Senders ==
    { Item(<<"A", "l">>, Addr_a, StartTime - Day),
      Item(<<>>, Addr_A, StartTime - 2 * Day),
      Item(<<"M", "o">>, Addr_b, StartTime - 3 * Day),
      Item(<<"E", "d">>, Addr_d, 0),
      Item(<<"A", "l", "i">>, Addr_c, StartTime - Day),
      Item(<<"A", "b">>, <<"a", "@", "b", "@", "x">>, StartTime - Day) }

SentFolders ==
    { <<>>,
      <<[to_recipients |-> <<[name |-> <<"M", "o">>, email_address |-> Addr_b],
                             [name |-> <<"A", "l", "i">>, email_address |-> Addr_c]>>,
         time |-> StartTime - 4 * Day]>>,
      <<[to_recipients |-> <<>>, time |-> StartTime - Day],
        [to_recipients |-> <<[name |-> <<"A", "l">>, email_address |-> Addr_A]>>,
         time |-> StartTime - 5 * Day]>> }

\* An inbox of one mail more than the scan takes, all from Mo at b@x, newest
\* first as the query orders them.
LongInbox == [i \in 1 .. MAX_ITEMS + 1 |-> Item(<<"M", "o">>, Addr_b, StartTime - i)]

HistoryQueries == {<<"@", "x">>, <<"@", "X">>, <<"a", "l">>}

MaxInbox == 4

InitHistory ==
    /\ \E q \in HistoryQueries, stats \in BOOLEAN,
          inbox \in Lists(Senders, MaxInbox) \cup {LongInbox}, sent \in SentFolders :
           history = [pc |-> "called", query |-> q, include_stats |-> stats,
                      mail |-> [raises |-> FALSE, inbox |-> inbox, sent |-> sent],
                      result |-> <<>>]
    /\ MergeIdle
    /\ SearchIdle
    /\ FindIdle
    /\ RankIdle
    /\ TasksIdle

\* _search_email_history scans the two folders and returns.
SearchEmailHistory ==
    /\ history.pc = "called"
    /\ history' = [history EXCEPT
                      !.pc = "returned",
                      !.result = _search_email_history(history.mail, history.query,
                                                       history.include_stats)]
    /\ UNCHANGED <<mergeVars, searchVars, findVars, rankVars, taskVars>>

NextHistory == SearchEmailHistory

SpecHistory == InitHistory /\ [][NextHistory]_vars

----------------------------------------------------------------------------
(* Claims about _search_email_history, checked under SpecHistory. *)

\* The lower-cased addresses of the scanned counterparts: the inbox senders
\* and the to-recipients of the sent items.
Counterparts ==
    {Lower(history.mail.inbox[i].email_address) : i \in DOMAIN history.mail.inbox}
    \cup {Lower(Recipients(history.mail.sent)[i].email_address) :
             i \in DOMAIN Recipients(history.mail.sent)}

\* Those at the domain of a query "@domain".
InDomain == {email \in Counterparts : EndsWith(email, Lower(history.query))}

\* C13: for a query that starts with "@", the history search returns
\* exactly one record per distinct lower-cased counterpart address ending
\* with that domain, each tagged email_history, and none for any other
\* address.
C13_OneRecordPerDomainAddress ==
    (history.pc = "returned" /\ history.query[1] = "@") =>
        /\ Len(history.result) = Cardinality(InDomain)
        /\ {history.result[i].id : i \in DOMAIN history.result} = InDomain
        /\ \A i \in DOMAIN history.result : history.result[i].sources = <<EMAIL_HISTORY>>

\* The counterpart occurrences of the first MAX_ITEMS items of each folder,
\* in scan order: [name, email_address, time].
Occurrences ==
    [i \in {n \in DOMAIN history.mail.inbox : n <= MAX_ITEMS} |-> history.mail.inbox[i]]
    \o Recipients([i \in {n \in DOMAIN history.mail.sent : n <= MAX_ITEMS} |->
                      history.mail.sent[i]])

\* The occurrences of a lower-cased address, among occ, that pass the filter
\* of the query.
KeptFor(occ, email) ==
    {i \in DOMAIN occ :
        /\ Lower(occ[i].email_address) = email
        /\ HistoryKeeps(occ[i].name, email, history.query)}

\* The timestamps of those occurrences that have one.
TimesFor(occ, email) == {occ[i].time : i \in KeptFor(occ, email)} \ {0}

\* C26: with stats enabled, every record the history search returns has as
\* total_emails the number of occurrences of its address passing the query
\* filter among the first 2000 inbox items and the first 2000 sent items,
\* as first_contact the earliest and as last_contact the latest timestamp
\* of those occurrences (both unset when none has a timestamp), with
\* first_contact <= last_contact, and emails_sent = emails_received = 0.
C26_HistoryStatsCountScannedOccurrences ==
    (history.pc = "returned" /\ history.include_stats) =>
        LET occ == Occurrences
        IN  \A n \in DOMAIN history.result :
                LET r == history.result[n]
                    stats == r.communication_stats[1]
                    times == TimesFor(occ, r.id)
                IN  /\ r.communication_stats # <<>>
                    /\ stats.total_emails = Cardinality(KeptFor(occ, r.id))
                    /\ stats.total_emails >= 1
                    /\ stats.emails_sent = 0
                    /\ stats.emails_received = 0
                    /\ times = {} => stats.first_contact = 0 /\ stats.last_contact = 0
                    /\ times # {} =>
                           /\ stats.first_contact \in times
                           /\ stats.last_contact \in times
                           /\ \A t \in times : stats.first_contact <= t /\ t <= stats.last_contact
                           /\ stats.first_contact <= stats.last_contact

\* A search over an inbox of 2001 mails from b@x and a sent mail to b@x
\* four days before: the record of b@x counts the first 2000 inbox mails and
\* the sent one, from the time of the sent one to that of the newest.
C26_Witness ==
    /\ history.pc = "returned"
    /\ history.include_stats
    /\ Len(history.mail.inbox) = MAX_ITEMS + 1
    /\ history.mail.sent # <<>>
    /\ \E n \in DOMAIN history.result :
           /\ history.result[n].id = Addr_b
           /\ history.result[n].communication_stats[1].total_emails = MAX_ITEMS + 1
           /\ history.result[n].communication_stats[1].last_contact = StartTime - 1
           /\ history.result[n].communication_stats[1].first_contact = StartTime - 4 * Day

----------------------------------------------------------------------------
(* SpecCache: asyncio tasks calling CacheAdapter.get_or_fetch on the one     *)
(* cache.  A call runs without interruption up to its await (line 115), the  *)
(* only point where another task can run, and from there to its return; a    *)
(* call that awaits nothing is one step.                                     *)

MaxTasks == 2

\* What fetch_func may be: an async function, as the docstring asks for, or
\* the lambda find_person passes (lines 87-91), whose call gives a coroutine
\* object.
FetchFuncs(query) ==
    { [kind |-> "async def", calls |-> Coroutine(query), awaited |-> ListOf(<<>>)],
      [kind |-> "lambda", calls |-> Coroutine(query), awaited |-> ListOf(<<>>)] }

InitCache ==
    /\ tasks = [i \in 1 .. MaxTasks |-> [pc |-> "idle"]]
    /\ cache = <<>>
    /\ now = StartTime
    /\ find = [pc |-> "none"]
    /\ MergeIdle
    /\ SearchIdle
    /\ RankIdle
    /\ HistoryIdle

\* The tasks suspended at the await of line 115 for key.
InFlight(key) == {j \in DOMAIN tasks : tasks[j].pc = "awaiting" /\ tasks[j].key = key}

\* Task i calls get_or_fetch(key, fetch_func, duration), elapsed seconds
\* after the step before: lines 108-117, and with nothing to await lines
\* 120-122 as well.
GetOrFetch(i, query, fetch_func, elapsed) ==
    LET key == <<"gal_search", query>>
        t == now + elapsed
        cached == get(cache, t, key)
        got == get_or_fetch(cache, t, key, fetch_func, GalSearchDuration)
    IN  /\ tasks[i].pc = "idle"
        /\ now' = t
        /\ IF cached.value = <<>> /\ iscoroutinefunction(fetch_func)
           THEN /\ cache' = cached.cache
                /\ tasks' = [tasks EXCEPT ![i] =
                                 [pc |-> "awaiting", key |-> key, started |-> TRUE,
                                  joined |-> InFlight(key), value |-> <<>>]]
           ELSE /\ cache' = got.cache
                /\ tasks' = [tasks EXCEPT ![i] =
                                 [pc |-> "returned", key |-> key,
                                  started |-> cached.value = <<>>,
                                  joined |-> InFlight(key), value |-> <<got.value>>]]
        /\ UNCHANGED <<find, mergeVars, searchVars, rankVars, historyVars>>

\* The producer task i awaits finishes: with a list, which is cached and
\* returned (lines 120-122), or with an exception, which is logged and
\* raised again (lines 124-126).
Resume(i, answer, raises) ==
    /\ tasks[i].pc = "awaiting"
    /\ IF raises
       THEN /\ tasks' = [tasks EXCEPT ![i].pc = "raised"]
            /\ UNCHANGED cache
       ELSE /\ cache' = set(cache, now, tasks[i].key, ListOf(answer), GalSearchDuration)
            /\ tasks' = [tasks EXCEPT ![i].pc = "returned", ![i].value = <<ListOf(answer)>>]
    /\ UNCHANGED <<now, find, mergeVars, searchVars, rankVars, historyVars>>

NextCache ==
    \/ \E i \in DOMAIN tasks, query \in Queries, elapsed \in {0, GalSearchDuration} :
           \E fetch_func \in FetchFuncs(query) : GetOrFetch(i, query, fetch_func, elapsed)
    \/ \E i \in DOMAIN tasks, answer \in GalAnswers, raises \in BOOLEAN :
           Resume(i, answer, raises)

SpecCache == InitCache /\ [][NextCache]_vars

----------------------------------------------------------------------------
(* Claims about CacheAdapter.get_or_fetch under concurrent callers, checked  *)
(* under SpecCache.                                                          *)

\* C14: at most one fetch per cache key is in flight: no two calls are
\* suspended on their producers for the same key, and a call made while
\* another was in flight for its key starts no producer and returns the
\* value that call returns.
C14_AtMostOneFetchInFlight ==
    \A i \in DOMAIN tasks, j \in DOMAIN tasks :
        (i # j /\ tasks[i].pc # "idle" /\ tasks[j].pc # "idle" /\ tasks[i].key = tasks[j].key)
        => /\ ~(tasks[i].pc = "awaiting" /\ tasks[j].pc = "awaiting")
           /\ i \in tasks[j].joined => ~tasks[j].started
           /\ (i \in tasks[j].joined /\ tasks[i].pc = "returned" /\ tasks[j].pc = "returned")
                  => tasks[j].value = tasks[i].value

\* C18: a get_or_fetch call that returns, returns a finished list of
\* records: on a miss the list its producer ran to, stored under the key
\* for the given TTL, and on a hit the list an earlier call stored, no
\* producer being started; so what find_person obtains with its lambda is
\* the list GALAdapter.search returned.
C18_FetchedValueIsFinishedList ==
    /\ \A i \in DOMAIN tasks :
           tasks[i].pc = "returned" =>
               /\ tasks[i].value[1].type = "list"
               /\ ~tasks[i].started =>
                      \E j \in DOMAIN tasks \ {i} :
                          /\ tasks[j].pc = "returned"
                          /\ tasks[j].started
                          /\ tasks[j].key = tasks[i].key
                          /\ tasks[j].value = tasks[i].value
    /\ \A key \in DOMAIN cache :
           /\ cache[key].value.type = "list"
           /\ cache[key].expires_at <= now + GalSearchDuration

----------------------------------------------------------------------------
(* SpecTtl: a caller of CacheAdapter.set and CacheAdapter.get on the one     *)
(* cache, the clock advancing between the calls.  A TTL is given as <<n>>,   *)
(* or not given, <<>> (duration=None).                                       *)

MaxOps == 3

CacheKeys == {"folder_list", "contacts"}

CacheValues == {"v", "w"}

\* The TTLs a caller gives, and none.
Durations == {<<>>, <<0>>, <<1>>, <<2>>}

\* The seconds that pass before a get.
Elapses == {0, 1, 2, DefaultDuration}

InitTtl ==
    /\ tasks = <<>>
    /\ cache = <<>>
    /\ now = StartTime
    /\ find = [pc |-> "none"]
    /\ MergeIdle
    /\ SearchIdle
    /\ RankIdle
    /\ HistoryIdle

\* set(key, value, duration), lines 72-74; None and 0 are both falsy for
\* "duration or 300".
Set(key, value, duration) ==
    /\ Len(tasks) < MaxOps
    /\ cache' = set(cache, now, key, value, IF duration = <<>> THEN 0 ELSE duration[1])
    /\ tasks' = Append(tasks, [op |-> "set", key |-> key, value |-> <<value>>,
                               duration |-> duration, at |-> now, kept |-> TRUE])
    /\ UNCHANGED <<now, find, mergeVars, searchVars, rankVars, historyVars>>

\* get(key), elapsed seconds after the call before, lines 42-56.
Get(key, elapsed) ==
    LET got == get(cache, now + elapsed, key)
    IN  /\ Len(tasks) < MaxOps
        /\ now' = now + elapsed
        /\ cache' = got.cache
        /\ tasks' = Append(tasks, [op |-> "get", key |-> key, value |-> got.value,
                                   duration |-> <<>>, at |-> now + elapsed,
                                   kept |-> key \in DOMAIN got.cache])
        /\ UNCHANGED <<find, mergeVars, searchVars, rankVars, historyVars>>

NextTtl ==
    \/ \E key \in CacheKeys, value \in CacheValues, duration \in Durations :
           Set(key, value, duration)
    \/ \E key \in CacheKeys, elapsed \in Elapses : Get(key, elapsed)

SpecTtl == InitTtl /\ [][NextTtl]_vars

----------------------------------------------------------------------------
(* Claims about CacheAdapter.set and get, checked under SpecTtl. *)

\* The set calls for the key of call n made before it.
SetsBefore(n) == {m \in 1 .. n - 1 : tasks[m].op = "set" /\ tasks[m].key = tasks[n].key}

\* The last of them.
LastSet(n) == CHOOSE m \in SetsBefore(n) : \A k \in SetsBefore(n) : k <= m

\* C28: a get returns the value of the last set of its key, made with a TTL
\* given (0 included), only while fewer than TTL seconds have passed since
\* that set; from then on it returns None and the entry is gone from the
\* cache.
C28_ReturnedOnlyWithinTtl ==
    \A n \in DOMAIN tasks :
        (tasks[n].op = "get" /\ SetsBefore(n) # {} /\ tasks[LastSet(n)].duration # <<>>)
        => LET stored == tasks[LastSet(n)]
               age == tasks[n].at - stored.at
           IN  /\ tasks[n].value # <<>> => /\ tasks[n].value = stored.value
                                           /\ age < stored.duration[1]
               /\ age >= stored.duration[1] => tasks[n].value = <<>> /\ ~tasks[n].kept

----------------------------------------------------------------------------
(* SpecRecords: the two operations that hand records to a caller, each as    *)
(* in its own specification: one GALAdapter.search call, or a PersonService  *)
(* serving find_person calls.                                                *)

InitRecords == InitSearch \/ InitFind

NextRecords == NextSearch \/ NextFind

SpecRecords == InitRecords /\ [][NextRecords]_vars

\* The records a caller holds: what a finished search returned, and what
\* the last finished find_person returned.
ReturnedRecords ==
    (IF search.pc = "done" THEN Range(search.result) ELSE {})
    \cup (IF find.pc = "done" THEN Range(find.results) ELSE {})

\* The records the strategies of search built, merged or not.
BuiltRecords ==
    IF search.pc = "idle" THEN {}
    ELSE UNION {Range(search.strategy_results[k].persons) : k \in DOMAIN search.strategy_results}

\* C15: every record search or find_person returns, and every record a
\* strategy built from a source result, has at least one email address and
\* an id equal to its lower-cased primary email.
C15_IdIsLowerPrimaryEmail ==
    \A p \in ReturnedRecords \cup BuiltRecords :
        /\ Len(p.email_addresses) >= 1
        /\ primary_email(p) # None
        /\ p.id = Lower(primary_email(p)[1])

\* find_person returned a record merged from a contact with two addresses,
\* the primary one in upper case, and a history record of the same person.
C15_Witness ==
    /\ find.pc = "done"
    /\ \E k \in DOMAIN find.results :
           /\ Len(find.results[k].email_addresses) >= 1
           /\ find.results[k].email_addresses[1].address = Addr_A
           /\ find.results[k].id = Addr_a
           /\ CONTACTS \in Range(find.results[k].sources)
           /\ EMAIL_HISTORY \in Range(find.results[k].sources)

\* C16: the sources of every record search or find_person returns are not
\* empty.
C16_SourcesNeverEmpty ==
    \A p \in ReturnedRecords : p.sources # <<>>

\* search returned a record merged from an exact match and a domain match
\* of the same address, tagged as from the directory.
C16_Witness ==
    /\ search.pc = "done"
    /\ Len(search.strategy_results) = 2
    /\ search.strategy_results[2].strategy = "domain"
    /\ \E k \in DOMAIN search.result :
           /\ search.result[k].sources = <<GAL>>
           /\ \E n \in DOMAIN search.strategy_results[1].persons :
                  search.strategy_results[1].persons[n].id = search.result[k].id
           /\ \E n \in DOMAIN search.strategy_results[2].persons :
                  search.strategy_results[2].persons[n].id = search.result[k].id

\* The positions of the addresses of a record that are marked primary.
MarkedPrimary(p) == {i \in DOMAIN p.email_addresses : p.email_addresses[i].is_primary}

\* The operand merge_with builds on: the one of higher source priority,
\* self on a tie.
BaseOperand(self, other) ==
    IF source_priority(self) >= source_priority(other) THEN self ELSE other

\* C27: every record search or find_person returns has exactly one email
\* address marked primary; and for any two records A, B that were built or
\* returned, the primary email of A.merge_with(B) is the primary email of
\* the base operand.
C27_OnePrimaryKeptByMerge ==
    /\ \A p \in ReturnedRecords : Cardinality(MarkedPrimary(p)) = 1
    /\ \A a \in ReturnedRecords \cup BuiltRecords, b \in ReturnedRecords \cup BuiltRecords :
           primary_email(merge_with(a, b)) = primary_email(BaseOperand(a, b))

\* find_person returned two records, one of them merged from a contact with
\* two addresses and a history record of the same person; merging the two
\* returned records would add the donor's marked address after the base's.
C27_Witness ==
    /\ find.pc = "done"
    /\ Len(find.results) = 2
    /\ \E k \in DOMAIN find.results :
           /\ Len(find.results[k].email_addresses) >= 2
           /\ CONTACTS \in Range(find.results[k].sources)
           /\ EMAIL_HISTORY \in Range(find.results[k].sources)
    /\ Cardinality(MarkedPrimary(merge_with(find.results[1], find.results[2]))) = 2

====
